---- MODULE Spec2Model ----
(***************************************************************************)
(* The weather-station server (src/server.py): the station directory and   *)
(* its loader, the radius search of /search_stations, the daily-record     *)
(* parser behind /process_weather_data and /get_station_data, the download *)
(* of record files, the seasonal aggregation of the records, the distance  *)
(* function, and the handlers as threads that interleave.                  *)
(*                                                                         *)
(* Text is a sequence of one-character strings, so that the fixed-width    *)
(* column slices, strip(), float(), int() and rsplit() of the source are   *)
(* computed, not assumed.  A Python float is a fixed-point integer with    *)
(* four decimals (48.0014 is 480014, 1.007 km is 10070); temperatures are  *)
(* kept in tenths of a degree, the unit of the record file.                *)
(***************************************************************************)
EXTENDS Integers, Sequences, FiniteSets, TLC

VARIABLES
    started,        \* the module-level initialisation (server.py:321-326) has run
    stationsFile,   \* the lines of STATIONS_FILE
    stations,       \* the process-wide station list (server.py:15)
    remote,         \* what BASE_WEATHER_URL serves per station id: lines, or NotFound
    weatherFiles,   \* WEATHER_DATA_DIR: per station id the cached lines, or NoFile
    request,        \* the request being answered
    response,       \* the answer to it
    requested,      \* the station ids it asked the remote source for, in order
    records,        \* the parsed record lines of one station, in stream order
    consumed,       \* how many of them the aggregator has taken
    accumulators,   \* per year the sums and counts of the aggregation
    query,          \* the start_year and end_year of the aggregation
    years,          \* the finalized result of the aggregation: <<>>, then <<map>>
    points,         \* two points whose distance is taken: <<A, B>>
    distances,      \* <<>>, then the outcomes of haversine for A->B, B->A and A->A
    handlers,       \* per handler thread its request, its position and its locals
    writing         \* per station id: "no", or how far an open download has written

\* The state of one aggregation.
aggregation == <<records, consumed, accumulators, query, years>>

\* The state of one distance measurement.
measurement == <<points, distances>>

\* The state of the handler threads.
threads == <<handlers, writing>>

vars == <<started, stationsFile, stations, remote, weatherFiles, request, response,
          requested,
          records, consumed, accumulators, query, years, points, distances,
          handlers, writing>>

-----------------------------------------------------------------------------
(* Bounds of the model *)

\* Handler threads that answer requests at the same time.
MaxHandlers == 2

\* Lines in the station directory file.
MaxStations == 2
\* Lines in one station's record file, and record lines in one aggregation.
MaxRecLines == 2

-----------------------------------------------------------------------------
(* Text *)

Whitespace == {" ", "\n", "\t", "\r"}

DigitChars == <<"0", "1", "2", "3", "4", "5", "6", "7", "8", "9">>

IsDigit(c) == \E d \in 1..10 : DigitChars[d] = c

DigitValue(c) == (CHOOSE d \in 1..10 : DigitChars[d] = c) - 1

Min(a, b) == IF a < b THEN a ELSE b

\* s[a:b] for 0 <= a <= b: Python clamps the slice to the text.
Slice(s, a, b) == SubSeq(s, a + 1, Min(b, Len(s)))

\* s[a:]
SliceFrom(s, a) == SubSeq(s, a + 1, Len(s))

RECURSIVE LStrip(_)
LStrip(s) == IF s # <<>> /\ Head(s) \in Whitespace THEN LStrip(Tail(s)) ELSE s

RECURSIVE RStrip(_)
RStrip(s) ==
    IF s # <<>> /\ s[Len(s)] \in Whitespace
    THEN RStrip(SubSeq(s, 1, Len(s) - 1))
    ELSE s

\* str.strip()
Strip(s) == LStrip(RStrip(s))

\* The last whitespace-separated token of a right-stripped text.
RECURSIVE LastToken(_)
LastToken(s) ==
    IF s = <<>> \/ s[Len(s)] \in Whitespace
    THEN <<>>
    ELSE Append(LastToken(SubSeq(s, 1, Len(s) - 1)), s[Len(s)])

\* str.rsplit(maxsplit=n) with no separator: split at runs of whitespace from
\* the right, at most n times; what is left over keeps its inner whitespace.
RECURSIVE RSplit(_, _)
RSplit(s, n) ==
    LET t == RStrip(s)
    IN  IF LStrip(t) = <<>> THEN <<>>
        ELSE IF n = 0 THEN <<LStrip(t)>>
        ELSE LET tok == LastToken(t)
             IN  Append(RSplit(SubSeq(t, 1, Len(t) - Len(tok)), n - 1), tok)

\* " ".join(parts)
RECURSIVE Join(_)
Join(parts) ==
    IF parts = <<>> THEN <<>>
    ELSE IF Len(parts) = 1 THEN parts[1]
    ELSE parts[1] \o <<" ">> \o Join(Tail(parts))

\* parts[:-2]
DropLastTwo(parts) == SubSeq(parts, 1, Len(parts) - 2)

RECURSIVE DigitsValue(_)
DigitsValue(s) ==
    IF s = <<>> THEN 0
    ELSE 10 * DigitsValue(SubSeq(s, 1, Len(s) - 1)) + DigitValue(s[Len(s)])

AllDigits(s) == \A i \in DOMAIN s : IsDigit(s[i])

Unsigned(s) == IF s # <<>> /\ s[1] \in {"-", "+"} THEN Tail(s) ELSE s

Sign(s) == IF s # <<>> /\ s[1] = "-" THEN -1 ELSE 1

\* The position of the first "." of s, or 0.
DotAt(s) == IF \E i \in DOMAIN s : s[i] = "."
            THEN CHOOSE i \in DOMAIN s : s[i] = "." /\ \A j \in 1..(i - 1) : s[j] # "."
            ELSE 0

\* The first four decimals of a fraction, as an integer.
Frac4(f) == DigitsValue(SubSeq(f \o <<"0", "0", "0", "0">>, 1, 4))

\* float(text): surrounding whitespace, a sign, digits with at most one ".".
\* Raises ValueError otherwise (exponents, "inf", "nan" and "_" do not occur
\* in the inputs of the model).
float(text) ==
    LET t == Strip(text)
        u == Unsigned(t)
        d == DotAt(u)
        whole == IF d = 0 THEN u ELSE SubSeq(u, 1, d - 1)
        frac == IF d = 0 THEN <<>> ELSE SubSeq(u, d + 1, Len(u))
    IN  IF AllDigits(whole) /\ AllDigits(frac) /\ Len(whole) + Len(frac) > 0
        THEN [ok |-> TRUE, err |-> "", val |-> Sign(t) * (10000 * DigitsValue(whole) + Frac4(frac))]
        ELSE [ok |-> FALSE, err |-> "ValueError", val |-> 0]

\* int(text): surrounding whitespace, a sign, digits.  ValueError otherwise.
int(text) ==
    LET t == Strip(text)
        u == Unsigned(t)
    IN  IF u # <<>> /\ AllDigits(u)
        THEN [ok |-> TRUE, err |-> "", val |-> Sign(t) * DigitsValue(u)]
        ELSE [ok |-> FALSE, err |-> "ValueError", val |-> 0]

-----------------------------------------------------------------------------
(* The station directory: parse_stations *)

\* The station name of a directory line (server.py:49-50): the text from
\* column 36 on, without its last two tokens.
station_name(line) == Join(DropLastTwo(RSplit(Strip(SliceFrom(line, 36)), 2)))

\* The body of the try block for one line (server.py:45-51): the station, or
\* the ValueError of float().
parse_station_line(line) ==
    LET lat == float(Strip(Slice(line, 12, 20)))
        lon == float(Strip(Slice(line, 21, 30)))
    IN  IF lat.ok /\ lon.ok
        THEN [ok |-> TRUE,
              station |-> [id |-> Strip(Slice(line, 0, 11)), lat |-> lat.val,
                           lon |-> lon.val, name |-> station_name(line)]]
        ELSE [ok |-> FALSE, station |-> <<>>]

\* The loader with "break" for "continue": it stops at the first faulty line.
RECURSIVE parse_lines_break(_)
parse_lines_break(lines) ==
    IF lines = <<>> THEN <<>>
    ELSE LET p == parse_station_line(Head(lines))
         IN  IF p.ok
             THEN <<p.station>> \o parse_lines_break(Tail(lines))
             ELSE <<>>

\* for line in file: try ... except ValueError: continue (server.py:43-53)
RECURSIVE parse_lines(_)
parse_lines(lines) ==
    IF lines = <<>> THEN <<>>
    ELSE LET p == parse_station_line(Head(lines))
         IN  IF p.ok
             THEN <<p.station>> \o parse_lines(Tail(lines))
             ELSE parse_lines(Tail(lines))

parse_stations == parse_lines(stationsFile)

\* A loader that appends to the process-wide list itself.
list_while_parsing_shared(global, parsed_stations) == parsed_stations

\* The process-wide list while a handler is parsing: parse_stations fills a
\* list of its own (server.py:37, 51) and the handler assigns it when the
\* parse has returned (server.py:190).
list_while_parsing(global, parsed_stations) == global

\* if not stations: stations = parse_stations()   (the head of every handler)
LoadedStations == IF stations = <<>> THEN parse_stations ELSE stations

-----------------------------------------------------------------------------
(* The radius search: haversine and search_stations *)

\* haversine with cos(lat1) ** 2 in place of cos(lat1) * cos(lat2): the values
\* this formula returns on the points of the model.
haversine_cos_lat1_squared(lat1, lon1, lat2, lon2) ==
    CASE <<lat1, lon1, lat2, lon2>> = <<480000, 90000, 480000, 90000>> -> 0   \* Q->Q 0.0
      [] <<lat1, lon1, lat2, lon2>> = <<480000, 90000, 480000, 90135>> -> 10045   \* Q->A 1.0044530360278399
      [] <<lat1, lon1, lat2, lon2>> = <<480000, 90000, 480014, 90133>> -> 10018   \* Q->B 1.0017421273494882
      [] <<lat1, lon1, lat2, lon2>> = <<480000, 90000, 480005, 90135>> -> 10060   \* Q->C 1.0059905464398025
      [] <<lat1, lon1, lat2, lon2>> = <<480000, 90000, 900000, 0>> -> 47224346   \* Q->N 4722.434557914685
      [] <<lat1, lon1, lat2, lon2>> = <<480000, 90000, -12921, 368219>> -> 59042464   \* Q->K 5904.246378575199
      [] <<lat1, lon1, lat2, lon2>> = <<480000, 90000, -219656, -551049>> -> 94309083   \* Q->X 9430.90825795226
      [] <<lat1, lon1, lat2, lon2>> = <<480000, 90000, 219656, 1248951>> -> 83630985   \* Q->Y 8363.09845930982
      [] <<lat1, lon1, lat2, lon2>> = <<480000, 90135, 480000, 90000>> -> 10045   \* A->Q 1.0044530360278399
      [] <<lat1, lon1, lat2, lon2>> = <<480000, 90135, 480000, 90135>> -> 0   \* A->A 0.0
      [] <<lat1, lon1, lat2, lon2>> = <<480000, 90135, 480014, 90133>> -> 1564   \* A->B 0.1563825077769518
      [] <<lat1, lon1, lat2, lon2>> = <<480000, 90135, 480005, 90135>> -> 556   \* A->C 0.055597463322544824
      [] <<lat1, lon1, lat2, lon2>> = <<480000, 90135, 900000, 0>> -> 47225904   \* A->N 4722.59038970797
      [] <<lat1, lon1, lat2, lon2>> = <<480000, 90135, -12921, 368219>> -> 59038542   \* A->K 5903.854179926899
      [] <<lat1, lon1, lat2, lon2>> = <<480000, 90135, -219656, -551049>> -> 94315155   \* A->X 9431.51540218843
      [] <<lat1, lon1, lat2, lon2>> = <<480000, 90135, 219656, 1248951>> -> 83624731   \* A->Y 8362.473072642906
      [] <<lat1, lon1, lat2, lon2>> = <<480014, 90133, 480000, 90000>> -> 10018   \* B->Q 1.001715598911404
      [] <<lat1, lon1, lat2, lon2>> = <<480014, 90133, 480000, 90135>> -> 1564   \* B->A 0.1563824693504847
      [] <<lat1, lon1, lat2, lon2>> = <<480014, 90133, 480014, 90133>> -> 0   \* B->B 0.0
      [] <<lat1, lon1, lat2, lon2>> = <<480014, 90133, 480005, 90135>> -> 1012   \* B->C 0.10117568014062192
      [] <<lat1, lon1, lat2, lon2>> = <<480014, 90133, 900000, 0>> -> 47224310   \* B->N 4722.430979235708
      [] <<lat1, lon1, lat2, lon2>> = <<480014, 90133, -12921, 368219>> -> 59039853   \* B->K 5903.985206568096
      [] <<lat1, lon1, lat2, lon2>> = <<480014, 90133, -219656, -551049>> -> 94315657   \* B->X 9431.565663918915
      [] <<lat1, lon1, lat2, lon2>> = <<480014, 90133, 219656, 1248951>> -> 83623230   \* B->Y 8362.322982067231
      [] <<lat1, lon1, lat2, lon2>> = <<480005, 90135, 480000, 90000>> -> 10060   \* C->Q 1.0059808261993657
      [] <<lat1, lon1, lat2, lon2>> = <<480005, 90135, 480000, 90135>> -> 556   \* C->A 0.055597463322544824
      [] <<lat1, lon1, lat2, lon2>> = <<480005, 90135, 480014, 90133>> -> 1012   \* C->B 0.10117571832242546
      [] <<lat1, lon1, lat2, lon2>> = <<480005, 90135, 480005, 90135>> -> 0   \* C->C 0.0
      [] <<lat1, lon1, lat2, lon2>> = <<480005, 90135, 900000, 0>> -> 47225343   \* C->N 4722.5342824771515
      [] <<lat1, lon1, lat2, lon2>> = <<480005, 90135, -12921, 368219>> -> 59038990   \* C->K 5903.898900426106
      [] <<lat1, lon1, lat2, lon2>> = <<480005, 90135, -219656, -551049>> -> 94315366   \* C->X 9431.536565003888
      [] <<lat1, lon1, lat2, lon2>> = <<480005, 90135, 219656, 1248951>> -> 83624162   \* C->Y 8362.416159450217
      [] <<lat1, lon1, lat2, lon2>> = <<900000, 0, 480000, 90000>> -> 46701870   \* N->Q 4670.186919071467
      [] <<lat1, lon1, lat2, lon2>> = <<900000, 0, 480000, 90135>> -> 46701870   \* N->A 4670.186919071467
      [] <<lat1, lon1, lat2, lon2>> = <<900000, 0, 480014, 90133>> -> 46700313   \* N->B 4670.031246174165
      [] <<lat1, lon1, lat2, lon2>> = <<900000, 0, 480005, 90135>> -> 46701314   \* N->C 4670.1313216081435
      [] <<lat1, lon1, lat2, lon2>> = <<900000, 0, 900000, 0>> -> 0   \* N->N 0.0
      [] <<lat1, lon1, lat2, lon2>> = <<900000, 0, -12921, 368219>> -> 101512184   \* N->K 10151.21836272772
      [] <<lat1, lon1, lat2, lon2>> = <<900000, 0, -219656, -551049>> -> 124500067   \* N->X 12450.006678714004
      [] <<lat1, lon1, lat2, lon2>> = <<900000, 0, 219656, 1248951>> -> 75650802   \* N->Y 7565.080117306568
      [] <<lat1, lon1, lat2, lon2>> = <<-12921, 368219, 480000, 90000>> -> 63985059   \* K->Q 6398.505860258156
      [] <<lat1, lon1, lat2, lon2>> = <<-12921, 368219, 480000, 90135>> -> 63976762   \* K->A 6397.67611971145
      [] <<lat1, lon1, lat2, lon2>> = <<-12921, 368219, 480014, 90133>> -> 63978283   \* K->B 6397.828274389609
      [] <<lat1, lon1, lat2, lon2>> = <<-12921, 368219, 480005, 90135>> -> 63977261   \* K->C 6397.726071241024
      [] <<lat1, lon1, lat2, lon2>> = <<-12921, 368219, 900000, 0>> -> 114334337   \* K->N 11433.433631469201
      [] <<lat1, lon1, lat2, lon2>> = <<-12921, 368219, -12921, 368219>> -> 0   \* K->K 0.0
      [] <<lat1, lon1, lat2, lon2>> = <<-12921, 368219, -219656, -551049>> -> 106296382   \* K->X 10629.638192554443
      [] <<lat1, lon1, lat2, lon2>> = <<-12921, 368219, 219656, 1248951>> -> 103080335   \* K->Y 10308.033423707871
      [] <<lat1, lon1, lat2, lon2>> = <<-219656, -551049, 480000, 90000>> -> 109145291   \* X->Q 10914.529029405616
      [] <<lat1, lon1, lat2, lon2>> = <<-219656, -551049, 480000, 90135>> -> 109157025   \* X->A 10915.702452072004
      [] <<lat1, lon1, lat2, lon2>> = <<-219656, -551049, 480014, 90133>> -> 109158329   \* X->B 10915.832818913355
      [] <<lat1, lon1, lat2, lon2>> = <<-219656, -551049, 480005, 90135>> -> 109157553   \* X->C 10915.755220487332
      [] <<lat1, lon1, lat2, lon2>> = <<-219656, -551049, 900000, 0>> -> 153349778   \* X->N 15334.97774361585
      [] <<lat1, lon1, lat2, lon2>> = <<-219656, -551049, -12921, 368219>> -> 97105326   \* X->K 9710.532570150262
      [] <<lat1, lon1, lat2, lon2>> = <<-219656, -551049, -219656, -551049>> -> 0   \* X->X 0.0
      [] <<lat1, lon1, lat2, lon2>> = <<219656, 1248951, 480000, 90000>> -> 121986384   \* Y->Q 12198.638395841042
      [] <<lat1, lon1, lat2, lon2>> = <<219656, 1248951, 480000, 90135>> -> 121974047   \* Y->A 12197.404652959154
      [] <<lat1, lon1, lat2, lon2>> = <<219656, 1248951, 480014, 90133>> -> 121974956   \* Y->B 12197.495504536319
      [] <<lat1, lon1, lat2, lon2>> = <<219656, 1248951, 480005, 90135>> -> 121974306   \* Y->C 12197.43057158883
      [] <<lat1, lon1, lat2, lon2>> = <<219656, 1248951, 900000, 0>> -> 186784206   \* Y->N 18678.420516367714
      [] <<lat1, lon1, lat2, lon2>> = <<219656, 1248951, -12921, 368219>> -> 94489204   \* Y->K 9448.920354367674
      [] <<lat1, lon1, lat2, lon2>> = <<219656, 1248951, 219656, 1248951>> -> 0   \* Y->Y 0.0

\* haversine(lat1, lon1, lat2, lon2) in km (server.py:57-64), on the points of
\* the model: the value the function returns there, rounded up to four
\* decimals, so that "distance <= radius" is decided as the floats decide it
\* for every radius of at most four decimals.
\*   Q = (48.0, 9.0)   A = (48.0, 9.0135)   B = (48.0014, 9.0133)   C = (48.0005, 9.0135)
\*   N = (90.0, 0.0)   K = (-1.2921, 36.8219)
\*   X = (-21.9656, -55.1049)   Y = (21.9656, 124.8951), the antipode of X
\* There is no value for X->Y and Y->X: see haversine_raises.
haversine(lat1, lon1, lat2, lon2) ==
    CASE <<lat1, lon1, lat2, lon2>> = <<480000, 90000, 480000, 90000>> -> 0       \* Q->Q 0.0
      [] <<lat1, lon1, lat2, lon2>> = <<480000, 90000, 480000, 90135>> -> 10045   \* Q->A 1.0044530360278399
      [] <<lat1, lon1, lat2, lon2>> = <<480000, 90000, 480014, 90133>> -> 10018   \* Q->B 1.0017288630382815
      [] <<lat1, lon1, lat2, lon2>> = <<480000, 90000, 480005, 90135>> -> 10060   \* Q->C 1.005985686307772
      [] <<lat1, lon1, lat2, lon2>> = <<480000, 90135, 480000, 90000>> -> 10045   \* A->Q 1.0044530360278399
      [] <<lat1, lon1, lat2, lon2>> = <<480000, 90135, 480000, 90135>> -> 0       \* A->A 0.0
      [] <<lat1, lon1, lat2, lon2>> = <<480000, 90135, 480014, 90133>> -> 1564    \* A->B 0.15638248856345874
      [] <<lat1, lon1, lat2, lon2>> = <<480000, 90135, 480005, 90135>> -> 556     \* A->C 0.055597463322544824
      [] <<lat1, lon1, lat2, lon2>> = <<480014, 90133, 480000, 90000>> -> 10018   \* B->Q 1.0017288630382815
      [] <<lat1, lon1, lat2, lon2>> = <<480014, 90133, 480000, 90135>> -> 1564    \* B->A 0.15638248856345874
      [] <<lat1, lon1, lat2, lon2>> = <<480014, 90133, 480014, 90133>> -> 0       \* B->B 0.0
      [] <<lat1, lon1, lat2, lon2>> = <<480014, 90133, 480005, 90135>> -> 1012    \* B->C 0.10117569923135895
      [] <<lat1, lon1, lat2, lon2>> = <<480005, 90135, 480000, 90000>> -> 10060   \* C->Q 1.005985686307772
      [] <<lat1, lon1, lat2, lon2>> = <<480005, 90135, 480000, 90135>> -> 556     \* C->A 0.055597463322544824
      [] <<lat1, lon1, lat2, lon2>> = <<480005, 90135, 480014, 90133>> -> 1012    \* C->B 0.10117569923135895
      [] <<lat1, lon1, lat2, lon2>> = <<480005, 90135, 480005, 90135>> -> 0       \* C->C 0.0
      [] <<lat1, lon1, lat2, lon2>> = <<480000, 90000, 900000, 0>> -> 46701870   \* Q->N 4670.186919071467
      [] <<lat1, lon1, lat2, lon2>> = <<480000, 90000, -12921, 368219>> -> 61056323   \* Q->K 6105.632287463199
      [] <<lat1, lon1, lat2, lon2>> = <<480000, 90000, -219656, -551049>> -> 100518881   \* Q->X 10051.888058527355
      [] <<lat1, lon1, lat2, lon2>> = <<480000, 90000, 219656, 1248951>> -> 99631988   \* Q->Y 9963.198737493218
      [] <<lat1, lon1, lat2, lon2>> = <<480000, 90135, 900000, 0>> -> 46701870   \* A->N 4670.186919071467
      [] <<lat1, lon1, lat2, lon2>> = <<480000, 90135, -12921, 368219>> -> 61050597   \* A->K 6105.059604081091
      [] <<lat1, lon1, lat2, lon2>> = <<480000, 90135, -219656, -551049>> -> 100527262   \* A->X 10052.726134529656
      [] <<lat1, lon1, lat2, lon2>> = <<480000, 90135, 219656, 1248951>> -> 99623607   \* A->Y 9962.360661490917
      [] <<lat1, lon1, lat2, lon2>> = <<480014, 90133, 900000, 0>> -> 46700313   \* B->N 4670.031246174165
      [] <<lat1, lon1, lat2, lon2>> = <<480014, 90133, -12921, 368219>> -> 61051960   \* B->K 6105.19599077021
      [] <<lat1, lon1, lat2, lon2>> = <<480014, 90133, -219656, -551049>> -> 100527996   \* B->X 10052.799516745685
      [] <<lat1, lon1, lat2, lon2>> = <<480014, 90133, 219656, 1248951>> -> 99622873   \* B->Y 9962.287279274886
      [] <<lat1, lon1, lat2, lon2>> = <<480005, 90135, 900000, 0>> -> 46701314   \* C->N 4670.1313216081435
      [] <<lat1, lon1, lat2, lon2>> = <<480005, 90135, -12921, 368219>> -> 61051053   \* C->K 6105.105284139719
      [] <<lat1, lon1, lat2, lon2>> = <<480005, 90135, -219656, -551049>> -> 100527568   \* C->X 10052.756776862536
      [] <<lat1, lon1, lat2, lon2>> = <<480005, 90135, 219656, 1248951>> -> 99623301   \* C->Y 9962.330019158037
      [] <<lat1, lon1, lat2, lon2>> = <<900000, 0, 480000, 90000>> -> 46701870   \* N->Q 4670.186919071467
      [] <<lat1, lon1, lat2, lon2>> = <<900000, 0, 480000, 90135>> -> 46701870   \* N->A 4670.186919071467
      [] <<lat1, lon1, lat2, lon2>> = <<900000, 0, 480014, 90133>> -> 46700313   \* N->B 4670.031246174165
      [] <<lat1, lon1, lat2, lon2>> = <<900000, 0, 480005, 90135>> -> 46701314   \* N->C 4670.1313216081435
      [] <<lat1, lon1, lat2, lon2>> = <<900000, 0, 900000, 0>> -> 0   \* N->N 0.0
      [] <<lat1, lon1, lat2, lon2>> = <<900000, 0, -12921, 368219>> -> 101512184   \* N->K 10151.21836272772
      [] <<lat1, lon1, lat2, lon2>> = <<900000, 0, -219656, -551049>> -> 124500067   \* N->X 12450.006678714004
      [] <<lat1, lon1, lat2, lon2>> = <<900000, 0, 219656, 1248951>> -> 75650802   \* N->Y 7565.080117306568
      [] <<lat1, lon1, lat2, lon2>> = <<-12921, 368219, 480000, 90000>> -> 61056323   \* K->Q 6105.632287463199
      [] <<lat1, lon1, lat2, lon2>> = <<-12921, 368219, 480000, 90135>> -> 61050597   \* K->A 6105.059604081091
      [] <<lat1, lon1, lat2, lon2>> = <<-12921, 368219, 480014, 90133>> -> 61051960   \* K->B 6105.19599077021
      [] <<lat1, lon1, lat2, lon2>> = <<-12921, 368219, 480005, 90135>> -> 61051053   \* K->C 6105.105284139719
      [] <<lat1, lon1, lat2, lon2>> = <<-12921, 368219, 900000, 0>> -> 101512184   \* K->N 10151.21836272772
      [] <<lat1, lon1, lat2, lon2>> = <<-12921, 368219, -12921, 368219>> -> 0   \* K->K 0.0
      [] <<lat1, lon1, lat2, lon2>> = <<-12921, 368219, -219656, -551049>> -> 101524286   \* K->X 10152.428527836695
      [] <<lat1, lon1, lat2, lon2>> = <<-12921, 368219, 219656, 1248951>> -> 98626583   \* K->Y 9862.658268183879
      [] <<lat1, lon1, lat2, lon2>> = <<-219656, -551049, 480000, 90000>> -> 100518881   \* X->Q 10051.888058527355
      [] <<lat1, lon1, lat2, lon2>> = <<-219656, -551049, 480000, 90135>> -> 100527262   \* X->A 10052.726134529656
      [] <<lat1, lon1, lat2, lon2>> = <<-219656, -551049, 480014, 90133>> -> 100527996   \* X->B 10052.799516745685
      [] <<lat1, lon1, lat2, lon2>> = <<-219656, -551049, 480005, 90135>> -> 100527568   \* X->C 10052.756776862536
      [] <<lat1, lon1, lat2, lon2>> = <<-219656, -551049, 900000, 0>> -> 124500067   \* X->N 12450.006678714004
      [] <<lat1, lon1, lat2, lon2>> = <<-219656, -551049, -12921, 368219>> -> 101524286   \* X->K 10152.428527836695
      [] <<lat1, lon1, lat2, lon2>> = <<-219656, -551049, -219656, -551049>> -> 0   \* X->X 0.0
      [] <<lat1, lon1, lat2, lon2>> = <<219656, 1248951, 480000, 90000>> -> 99631988   \* Y->Q 9963.198737493218
      [] <<lat1, lon1, lat2, lon2>> = <<219656, 1248951, 480000, 90135>> -> 99623607   \* Y->A 9962.360661490917
      [] <<lat1, lon1, lat2, lon2>> = <<219656, 1248951, 480014, 90133>> -> 99622873   \* Y->B 9962.287279274886
      [] <<lat1, lon1, lat2, lon2>> = <<219656, 1248951, 480005, 90135>> -> 99623301   \* Y->C 9962.330019158037
      [] <<lat1, lon1, lat2, lon2>> = <<219656, 1248951, 900000, 0>> -> 75650802   \* Y->N 7565.080117306568
      [] <<lat1, lon1, lat2, lon2>> = <<219656, 1248951, -12921, 368219>> -> 98626583   \* Y->K 9862.658268183879
      [] <<lat1, lon1, lat2, lon2>> = <<219656, 1248951, 219656, 1248951>> -> 0   \* Y->Y 0.0

\* haversine raises ValueError (server.py:63): rounding makes a exceed 1 and
\* math.sqrt(1 - a) has a negative argument.  Of the points of the model
\* this happens between X and its antipode Y, in both directions.
haversine_raises(lat1, lon1, lat2, lon2) ==
    <<lat1, lon1, lat2, lon2>> \in { <<-219656, -551049, 219656, 1248951>>,
                                     <<219656, 1248951, -219656, -551049>> }

\* What a call of haversine ends with: a distance, or the exception.
haversine_outcome(lat1, lon1, lat2, lon2) ==
    IF haversine_raises(lat1, lon1, lat2, lon2)
    THEN [raised |-> TRUE, km |-> 0]
    ELSE [raised |-> FALSE, km |-> haversine(lat1, lon1, lat2, lon2)]

\* round(distance, 2) of a distance that was rounded up to four decimals: up
\* from ...51, down to ...50 (a float is never exactly on ...50).
round2(distance) == ((distance + 49) \div 100) * 100

\* An absent query parameter: request.args.get(name) is None.
NoArg == <<"None">>

\* request.args.get(name, default)
ArgOr(arg, default) == IF arg = NoArg THEN default ELSE arg

\* float(None) raises TypeError.
float_arg(arg) ==
    IF arg = NoArg THEN [ok |-> FALSE, err |-> "TypeError", val |-> 0] ELSE float(arg)

int_arg(arg) ==
    IF arg = NoArg THEN [ok |-> FALSE, err |-> "TypeError", val |-> 0] ELSE int(arg)

\* The defaults of radius and max (server.py:196-197).
DefaultRadius == <<"5", "0">>

DefaultMax == <<"1", "0">>

\* The try block with an unparseable radius replaced by the default.
search_params_default_radius(args) ==
    LET lat == float_arg(args.lat)
        lon == float_arg(args.lon)
        given == float_arg(ArgOr(args.radius, DefaultRadius))
        radius == IF given.ok THEN given ELSE float(DefaultRadius)
        max_results == int_arg(ArgOr(args.max, DefaultMax))
    IN  [ok |-> lat.ok /\ lon.ok /\ max_results.ok,
         lat |-> lat.val, lon |-> lon.val, radius |-> radius.val,
         max_results |-> max_results.val]

\* The try block of search_stations (server.py:193-199): ok is FALSE when a
\* TypeError or ValueError was caught.
search_params(args) ==
    LET lat == float_arg(args.lat)
        lon == float_arg(args.lon)
        radius == float_arg(ArgOr(args.radius, DefaultRadius))
        max_results == int_arg(ArgOr(args.max, DefaultMax))
    IN  [ok |-> lat.ok /\ lon.ok /\ radius.ok /\ max_results.ok,
         lat |-> lat.val, lon |-> lon.val, radius |-> radius.val,
         max_results |-> max_results.val]

\* station.copy() with its "distance" entry (server.py:205-206)
station_copy(station, distance) ==
    [id |-> station.id, lat |-> station.lat, lon |-> station.lon,
     name |-> station.name, distance |-> round2(distance)]

\* The loop without its radius test.
RECURSIVE nearby_stations_unfiltered(_, _, _, _)
nearby_stations_unfiltered(dir, lat, lon, radius) ==
    IF dir = <<>> THEN <<>>
    ELSE <<station_copy(Head(dir), haversine(lat, lon, Head(dir).lat, Head(dir).lon))>>
         \o nearby_stations_unfiltered(Tail(dir), lat, lon, radius)

\* The loop over the stations (server.py:201-207): the results, in directory order.
RECURSIVE nearby_stations(_, _, _, _)
nearby_stations(dir, lat, lon, radius) ==
    IF dir = <<>> THEN <<>>
    ELSE LET station == Head(dir)
             distance == haversine(lat, lon, station.lat, station.lon)
             rest == nearby_stations(Tail(dir), lat, lon, radius)
         IN  IF distance <= radius
             THEN <<station_copy(station, distance)>> \o rest
             ELSE rest

\* The loop writing "distance" to the station itself instead of to a copy.
searched_directory_in_place(dir, lat, lon, radius) ==
    [k \in DOMAIN dir |->
        IF haversine(lat, lon, dir[k].lat, dir[k].lon) <= radius
        THEN station_copy(dir[k], haversine(lat, lon, dir[k].lat, dir[k].lon))
        ELSE dir[k]]

\* The station list as that loop leaves it: it writes to the copy only.
searched_directory(dir, lat, lon, radius) == dir

\* An insertion that puts x in front of the elements of equal key.
RECURSIVE insert_sorted_before_equal(_, _)
insert_sorted_before_equal(sorted, x) ==
    IF sorted = <<>> THEN <<x>>
    ELSE IF Head(sorted).distance < x.distance
         THEN <<Head(sorted)>> \o insert_sorted_before_equal(Tail(sorted), x)
         ELSE <<x>> \o sorted

\* One insertion of a stable sort: x goes behind every element whose key is
\* not greater.
RECURSIVE insert_sorted(_, _)
insert_sorted(sorted, x) ==
    IF sorted = <<>> THEN <<x>>
    ELSE IF Head(sorted).distance <= x.distance
         THEN <<Head(sorted)>> \o insert_sorted(Tail(sorted), x)
         ELSE <<x>> \o sorted

\* results.sort(key=lambda x: x["distance"])   (server.py:209)
RECURSIVE sort_by_distance(_)
sort_by_distance(results) ==
    IF results = <<>> THEN <<>>
    ELSE insert_sorted(sort_by_distance(SubSeq(results, 1, Len(results) - 1)),
                       results[Len(results)])

\* results[:n]: the first n, and for a negative n all but the last -n.
slice_to(results, n) ==
    IF n >= 0 THEN SubSeq(results, 1, Min(n, Len(results)))
    ELSE SubSeq(results, 1, Len(results) + n)

\* The answer of /search_stations (server.py:193-210).
search_response(dir, args) ==
    LET p == search_params(args)
    IN  IF ~p.ok
        THEN [status |-> 400, error |-> "Ungültige Parameter", body |-> <<>>]
        ELSE [status |-> 200, error |-> "",
              body |-> slice_to(sort_by_distance(
                           nearby_stations(dir, p.lat, p.lon, p.radius)),
                           p.max_results)]

-----------------------------------------------------------------------------
(* The record files: download_weather_data_for_stations and                *)
(* process_weather_data_for_station                                        *)

\* An absent file, and a file of the given lines.
NoFile == [exists |-> FALSE, lines |-> <<>>]

File(lines) == [exists |-> TRUE, lines |-> lines]

\* The answer of the remote source to GET BASE_WEATHER_URL/<id>.dly.
NotFound == [status |-> 404, lines |-> <<>>]

Served(lines) == [status |-> 200, lines |-> lines]

\* One pass of the loop that stores whatever the remote source answers.
download_one_any_status(files, station_id) ==
    IF files[station_id].exists THEN files
    ELSE [files EXCEPT ![station_id] = File(remote[station_id].lines)]

\* One pass of the loop of download_weather_data_for_stations (server.py:72-90):
\* nothing when the file exists; the body of a 200 answer is stored.
download_one(files, station_id) ==
    IF files[station_id].exists THEN files
    ELSE IF remote[station_id].status = 200
         THEN [files EXCEPT ![station_id] = File(remote[station_id].lines)]
         ELSE files

RECURSIVE download_weather_data_for_stations(_, _)
download_weather_data_for_stations(files, station_ids) ==
    IF station_ids = <<>> THEN files
    ELSE download_weather_data_for_stations(download_one(files, Head(station_ids)),
                                            Tail(station_ids))

\* The loop asking for every station, whether its file exists or not.
requests_for_every_station(files, station_ids) == station_ids

\* The station ids download_weather_data_for_stations calls requests.get for
\* (server.py:77-79): those whose file does not exist at their turn.
RECURSIVE requests_for(_, _)
requests_for(files, station_ids) ==
    IF station_ids = <<>> THEN <<>>
    ELSE (IF files[Head(station_ids)].exists THEN <<>> ELSE <<Head(station_ids)>>)
         \o requests_for(download_one(files, Head(station_ids)), Tail(station_ids))

\* The value that marks a missing day (server.py:145).
Sentinel == -9999

\* range(1, 32) (server.py:132)
LastDay == 31

\* f"{day:02d}"
TwoDigits(day) == <<DigitChars[(day \div 10) + 1], DigitChars[(day % 10) + 1]>>

TMAX == <<"T", "M", "A", "X">>

TMIN == <<"T", "M", "I", "N">>

\* The offset counted from the day instead of from the days before it.
field_pos_from_day(day) == 21 + day * 8

\* The offset of a day's field (server.py:133).
field_pos(day) == 21 + (day - 1) * 8

\* The loop body without the test for the sentinel.
day_observation_with_sentinel(line, year, month, element, day) ==
    LET value_str == Strip(Slice(line, field_pos(day), field_pos(day) + 5))
        value == int(value_str)
    IN  IF value_str = <<>> THEN <<>>
        ELSE IF ~value.ok THEN <<>>
        ELSE <<[date |-> year \o month \o TwoDigits(day), type |-> element,
                temperature |-> value.val]>>

\* The body of the loop over the days (server.py:137-160): the observation of
\* one field, or nothing for a blank, malformed or sentinel field.
day_observation(line, year, month, element, day) ==
    LET value_str == Strip(Slice(line, field_pos(day), field_pos(day) + 5))
        value == int(value_str)
    IN  IF value_str = <<>> THEN <<>>
        ELSE IF ~value.ok THEN <<>>
        ELSE IF value.val = Sentinel THEN <<>>
        ELSE <<[date |-> year \o month \o TwoDigits(day), type |-> element,
                temperature |-> value.val]>>

\* The loop with the ValueError of a field caught outside of it: the rest of
\* the line is lost.
RECURSIVE day_observations_line_fatal(_, _, _, _, _)
day_observations_line_fatal(line, year, month, element, day) ==
    IF day > LastDay \/ field_pos(day) + 5 > Len(line) THEN <<>>
    ELSE LET value_str == Strip(Slice(line, field_pos(day), field_pos(day) + 5))
         IN  IF value_str # <<>> /\ ~int(value_str).ok THEN <<>>
             ELSE day_observation(line, year, month, element, day)
                  \o day_observations_line_fatal(line, year, month, element, day + 1)

\* for day in range(1, 32), left at the first field the line is too short for
\* (server.py:132-135).
RECURSIVE day_observations(_, _, _, _, _)
day_observations(line, year, month, element, day) ==
    IF day > LastDay \/ field_pos(day) + 5 > Len(line) THEN <<>>
    ELSE day_observation(line, year, month, element, day)
         \o day_observations(line, year, month, element, day + 1)

\* One line of a record file (server.py:119-160).
line_observations(line) ==
    LET year == Strip(Slice(line, 11, 15))
        month == Strip(Slice(line, 15, 17))
        element == Strip(Slice(line, 17, 21))
    IN  IF element \notin {TMAX, TMIN} THEN <<>>
        ELSE day_observations(line, year, month, element, 1)

RECURSIVE file_observations(_)
file_observations(lines) ==
    IF lines = <<>> THEN <<>>
    ELSE line_observations(Head(lines)) \o file_observations(Tail(lines))

\* process_weather_data_for_station (server.py:93-177): (temperatures, error),
\* the error messages without the station id they end with.
process_weather_data_for_station(files, station_id) ==
    IF ~files[station_id].exists
    THEN [temperatures |-> <<>>, error |-> "No weather data found"]
    ELSE LET temperatures == file_observations(files[station_id].lines)
         IN  IF temperatures = <<>>
             THEN [temperatures |-> <<>>, error |-> "No valid temperature data found"]
             ELSE [temperatures |-> temperatures, error |-> ""]

\* The answer of /process_weather_data (server.py:302-318), given the cache
\* as the download left it.
process_response(files, station_id) ==
    LET r == process_weather_data_for_station(files, station_id)
    IN  IF r.error # ""
        THEN [status |-> 404, error |-> r.error, body |-> <<>>]
        ELSE [status |-> 200, error |-> "", body |-> r.temperatures]

\* The answer of /download_weather_data (server.py:283, 288): always the
\* message of success.
download_response(station_id) ==
    [status |-> 200, error |-> "",
     body |-> IF station_id = NoArg \/ station_id = <<>>
              THEN <<"Wetterdaten für alle Stationen erfolgreich heruntergeladen.">>
              ELSE <<"Wetterdaten für Station ", station_id,
                     " erfolgreich heruntergeladen.">>]

-----------------------------------------------------------------------------
(* The station data: get_station_data *)

\* The defaults of start_year and end_year (server.py:229-230).
DefaultStartYear == 2010

DefaultEndYear == 2020

\* int(request.args.get(name, default)) with an integer default.
year_arg(arg, default) ==
    IF arg = NoArg THEN [ok |-> TRUE, err |-> "", val |-> default] ELSE int(arg)

\* next((s for s in stations if s["id"] == station_id), None)   (server.py:235)
RECURSIVE find_station(_, _)
find_station(dir, station_id) ==
    IF dir = <<>> THEN [found |-> FALSE, station |-> <<>>]
    ELSE IF Head(dir).id = station_id THEN [found |-> TRUE, station |-> Head(dir)]
    ELSE find_station(Tail(dir), station_id)

\* int(temp["date"][:4])   (server.py:252)
year_of(temp) == int(Slice(temp.date, 0, 4))

\* The filter with the end year left out of the range.
filter_by_years_exclusive(temperatures, start_year, end_year) ==
    SelectSeq(temperatures,
              LAMBDA temp : start_year <= year_of(temp).val /\ year_of(temp).val < end_year)

\* The list comprehension of server.py:250-253.
filter_by_years(temperatures, start_year, end_year) ==
    SelectSeq(temperatures,
              LAMBDA temp : start_year <= year_of(temp).val /\ year_of(temp).val <= end_year)

\* The cache left as it is: the download of a missing file forgotten.
not_downloaded(files, station_id) == files

\* The cache after server.py:240-242: a missing file is downloaded.
downloaded_if_missing(files, station_id) ==
    IF files[station_id].exists THEN files
    ELSE download_weather_data_for_stations(files, <<station_id>>)

\* The requests of server.py:240-242.
requests_if_missing(files, station_id) ==
    IF files[station_id].exists THEN <<>>
    ELSE requests_for(files, <<station_id>>)

\* The answer without the test for an empty range.
station_data_response_empty_ok(station, files, station_id, start_year, end_year) ==
    LET r == process_weather_data_for_station(files, station_id)
        filtered_temperatures == filter_by_years(r.temperatures, start_year, end_year)
    IN  IF r.error # ""
        THEN [status |-> 404, error |-> r.error, body |-> <<>>]
        ELSE [status |-> 200, error |-> "",
              body |-> [id |-> station_id, name |-> station.name, lat |-> station.lat,
                        lon |-> station.lon, temperatures |-> filtered_temperatures]]

\* The answer with the temperatures read so far beside the error of the
\* empty range.
station_data_response_hybrid(station, files, station_id, start_year, end_year) ==
    LET r == process_weather_data_for_station(files, station_id)
        filtered_temperatures == filter_by_years(r.temperatures, start_year, end_year)
    IN  IF r.error # ""
        THEN [status |-> 404, error |-> r.error, body |-> <<>>]
        ELSE IF filtered_temperatures = <<>>
        THEN [status |-> 404, error |-> "Keine Temperaturdaten für den Zeitraum",
              body |-> r.temperatures]
        ELSE [status |-> 200, error |-> "",
              body |-> [id |-> station_id, name |-> station.name, lat |-> station.lat,
                        lon |-> station.lon, temperatures |-> filtered_temperatures]]

\* The answer for a station that was found (server.py:244-265), given the
\* cache as the download left it.  The message of the empty range is given
\* without the years it ends with; an unparseable year of a record is the
\* uncaught ValueError of line 252.
station_data_response(station, files, station_id, start_year, end_year) ==
    LET r == process_weather_data_for_station(files, station_id)
        filtered_temperatures == filter_by_years(r.temperatures, start_year, end_year)
    IN  IF r.error # ""
        THEN [status |-> 404, error |-> r.error, body |-> <<>>]
        ELSE IF \E i \in DOMAIN r.temperatures : ~year_of(r.temperatures[i]).ok
        THEN [status |-> 500, error |-> "Internal Server Error", body |-> <<>>]
        ELSE IF filtered_temperatures = <<>>
        THEN [status |-> 404, error |-> "Keine Temperaturdaten für den Zeitraum",
              body |-> <<>>]
        ELSE [status |-> 200, error |-> "",
              body |-> [id |-> station_id, name |-> station.name, lat |-> station.lat,
                        lon |-> station.lon, temperatures |-> filtered_temperatures]]

\* The handler without the look-up in the directory, as /process_weather_data
\* goes about it.
get_station_data_result_unchecked(dir, files, args) ==
    LET station_id == args.station_id
        start_year == year_arg(args.start_year, DefaultStartYear)
        end_year == year_arg(args.end_year, DefaultEndYear)
        found == find_station(dir, station_id)
        station == IF found.found THEN found.station
                   ELSE [id |-> station_id, lat |-> 0, lon |-> 0, name |-> <<>>]
        cached == downloaded_if_missing(files, station_id)
    IN  IF station_id = NoArg \/ station_id = <<>>
        THEN [files |-> files, requested |-> <<>>,
              response |-> [status |-> 400, error |-> "Keine Station-ID angegeben",
                            body |-> <<>>]]
        ELSE IF ~(start_year.ok /\ end_year.ok)
        THEN [files |-> files, requested |-> <<>>,
              response |-> [status |-> 400, error |-> "Ungültige Jahresangaben",
                            body |-> <<>>]]
        ELSE [files |-> cached, requested |-> requests_if_missing(files, station_id),
              response |-> station_data_response(station, cached, station_id,
                                                 start_year.val, end_year.val)]

\* The handler downloading the records before it looks at the years and
\* the directory.
get_station_data_result_download_first(dir, files, args) ==
    LET station_id == args.station_id
        start_year == year_arg(args.start_year, DefaultStartYear)
        end_year == year_arg(args.end_year, DefaultEndYear)
        found == find_station(dir, station_id)
        cached == downloaded_if_missing(files, station_id)
    IN  IF station_id = NoArg \/ station_id = <<>>
        THEN [files |-> files, requested |-> <<>>,
              response |-> [status |-> 400, error |-> "Keine Station-ID angegeben",
                            body |-> <<>>]]
        ELSE IF ~(start_year.ok /\ end_year.ok)
        THEN [files |-> cached, requested |-> requests_if_missing(files, station_id),
              response |-> [status |-> 400, error |-> "Ungültige Jahresangaben",
                            body |-> <<>>]]
        ELSE IF ~found.found
        THEN [files |-> cached, requested |-> requests_if_missing(files, station_id),
              response |-> [status |-> 404, error |-> "Station nicht gefunden",
                            body |-> <<>>]]
        ELSE [files |-> cached, requested |-> requests_if_missing(files, station_id),
              response |-> station_data_response(found.station, cached, station_id,
                                                 start_year.val, end_year.val)]

\* The handler looking the station up before it reads the years.
get_station_data_result_station_first(dir, files, args) ==
    LET station_id == args.station_id
        start_year == year_arg(args.start_year, DefaultStartYear)
        end_year == year_arg(args.end_year, DefaultEndYear)
        found == find_station(dir, station_id)
        cached == downloaded_if_missing(files, station_id)
    IN  IF station_id = NoArg \/ station_id = <<>>
        THEN [files |-> files, requested |-> <<>>,
              response |-> [status |-> 400, error |-> "Keine Station-ID angegeben",
                            body |-> <<>>]]
        ELSE IF ~found.found
        THEN [files |-> files, requested |-> <<>>,
              response |-> [status |-> 404, error |-> "Station nicht gefunden",
                            body |-> <<>>]]
        ELSE IF ~(start_year.ok /\ end_year.ok)
        THEN [files |-> files, requested |-> <<>>,
              response |-> [status |-> 400, error |-> "Ungültige Jahresangaben",
                            body |-> <<>>]]
        ELSE [files |-> cached, requested |-> requests_if_missing(files, station_id),
              response |-> station_data_response(found.station, cached, station_id,
                                                 start_year.val, end_year.val)]

\* get_station_data behind its lazy load (server.py:224-265): the cache it
\* leaves, the requests it sends to the remote source, and its answer.
get_station_data_result(dir, files, args) ==
    LET station_id == args.station_id
        start_year == year_arg(args.start_year, DefaultStartYear)
        end_year == year_arg(args.end_year, DefaultEndYear)
        found == find_station(dir, station_id)
        cached == downloaded_if_missing(files, station_id)
    IN  IF station_id = NoArg \/ station_id = <<>>
        THEN [files |-> files, requested |-> <<>>,
              response |-> [status |-> 400, error |-> "Keine Station-ID angegeben",
                            body |-> <<>>]]
        ELSE IF ~(start_year.ok /\ end_year.ok)
        THEN [files |-> files, requested |-> <<>>,
              response |-> [status |-> 400, error |-> "Ungültige Jahresangaben",
                            body |-> <<>>]]
        ELSE IF ~found.found
        THEN [files |-> files, requested |-> <<>>,
              response |-> [status |-> 404, error |-> "Station nicht gefunden",
                            body |-> <<>>]]
        ELSE [files |-> cached, requested |-> requests_if_missing(files, station_id),
              response |-> station_data_response(found.station, cached, station_id,
                                                 start_year.val, end_year.val)]

-----------------------------------------------------------------------------
(* The seasonal aggregation, as the design of the aggregator lays it down *)
(* (sections 3, 4.5 and 4.6): accumulate and finalize                      *)

SeasonKey == {"Winter", "Spring", "Summer", "Autumn"}

\* Dec, Jan, Feb -> Winter; Mar, Apr, May -> Spring; Jun, Jul, Aug -> Summer;
\* Sep, Oct, Nov -> Autumn.
season_of(month) ==
    IF month \in {12, 1, 2} THEN "Winter"
    ELSE IF month \in {3, 4, 5} THEN "Spring"
    ELSE IF month \in {6, 7, 8} THEN "Summer"
    ELSE "Autumn"

\* A parsed record line: the values of its days in order, <<v>> for a present
\* value (in tenths of a degree) and <<>> for an absent one.
DailyRecordLine(year, month, element, values) ==
    [year |-> year, month |-> month, element |-> element, values |-> values]

RECURSIVE present_sum(_)
present_sum(values) ==
    IF values = <<>> THEN 0
    ELSE (IF Head(values) = <<>> THEN 0 ELSE Head(values)[1]) + present_sum(Tail(values))

present_count(values) == Cardinality({ d \in DOMAIN values : values[d] # <<>> })

\* Sums and counts of the two elements: of a year, and of a season.
EmptyBucket == [sum_TMAX |-> 0, count_TMAX |-> 0, sum_TMIN |-> 0, count_TMIN |-> 0]

EmptyAccumulator ==
    [sum_TMAX |-> 0, count_TMAX |-> 0, sum_TMIN |-> 0, count_TMIN |-> 0,
     seasons |-> [season \in SeasonKey |-> EmptyBucket]]

\* The present values of a record added to the sum and count of its element.
add_values(bucket, record) ==
    IF record.element = TMAX
    THEN [bucket EXCEPT !.sum_TMAX = @ + present_sum(record.values),
                        !.count_TMAX = @ + present_count(record.values)]
    ELSE [bucket EXCEPT !.sum_TMIN = @ + present_sum(record.values),
                        !.count_TMIN = @ + present_count(record.values)]

\* accumulators[year], made on first use.
accumulator_of(accs, year) ==
    IF year \in DOMAIN accs THEN accs[year] ELSE EmptyAccumulator

with_accumulator(accs, year, acc) ==
    [y \in (DOMAIN accs) \cup {year} |-> IF y = year THEN acc ELSE accs[y]]

\* accumulate with December counted to the winter of its own year.
accumulate_calendar_winter(accs, record, start_year, end_year) ==
    IF record.year < start_year \/ record.year > end_year THEN accs
    ELSE LET yearly == with_accumulator(accs, record.year,
                           add_values(accumulator_of(accs, record.year), record))
             season == season_of(record.month)
             of_season == accumulator_of(yearly, record.year)
         IN  with_accumulator(yearly, record.year,
                 [of_season EXCEPT !.seasons[season] = add_values(@, record)])

\* accumulate without the boundary policy: a December of end_year goes to the
\* winter of the year after the range.
accumulate_winter_past_end(accs, record, start_year, end_year) ==
    IF record.year < start_year \/ record.year > end_year THEN accs
    ELSE LET yearly == with_accumulator(accs, record.year,
                           add_values(accumulator_of(accs, record.year), record))
             season == season_of(record.month)
             season_year == IF record.month = 12 THEN record.year + 1 ELSE record.year
             of_season == accumulator_of(yearly, season_year)
         IN  with_accumulator(yearly, season_year,
                 [of_season EXCEPT !.seasons[season] = add_values(@, record)])

\* accumulate(accumulators, record, start_year, end_year): a record of a
\* year outside the range is ignored; otherwise its present values go to the
\* year of the record and to the season of season_year, which is the next
\* year for December; a winter past end_year is left out.
accumulate(accs, record, start_year, end_year) ==
    IF record.year < start_year \/ record.year > end_year THEN accs
    ELSE LET yearly == with_accumulator(accs, record.year,
                           add_values(accumulator_of(accs, record.year), record))
             season == season_of(record.month)
             season_year == IF record.month = 12 THEN record.year + 1 ELSE record.year
             of_season == accumulator_of(yearly, season_year)
         IN  IF season = "Winter" /\ season_year > end_year THEN yearly
             ELSE with_accumulator(yearly, season_year,
                      [of_season EXCEPT !.seasons[season] = add_values(@, record)])

\* An average that does not exist; an average that does is <<v>>.
null == <<>>

\* round(sum / count, 1) in tenths of a degree: the nearest integer to
\* sum / count, a half going to the even neighbour.
round1(sum, count) ==
    LET q == sum \div count
        r == sum % count
    IN  IF 2 * r < count THEN q
        ELSE IF 2 * r > count THEN q + 1
        ELSE IF q % 2 = 0 THEN q ELSE q + 1

average(sum, count) == IF count > 0 THEN <<round1(sum, count)>> ELSE null

\* The two averages of a year or of a season.
averages(bucket) ==
    [avg_TMAX |-> average(bucket.sum_TMAX, bucket.count_TMAX),
     avg_TMIN |-> average(bucket.sum_TMIN, bucket.count_TMIN)]

\* The seasons of a year that are emitted: at least one average is not null.
emitted_seasons(acc) ==
    { season \in SeasonKey :
        LET avg == averages(acc.seasons[season])
        IN  avg.avg_TMAX # null \/ avg.avg_TMIN # null }

YearSummary(acc) ==
    [avg_TMAX |-> averages(acc).avg_TMAX,
     avg_TMIN |-> averages(acc).avg_TMIN,
     seasons |-> [season \in emitted_seasons(acc) |-> averages(acc.seasons[season])]]

\* finalize that emits every year of the accumulators.
finalize_every_year(accs) ==
    [y \in DOMAIN accs |-> YearSummary(accs[y])]

\* finalize(accumulators): a year is emitted only with a non-empty season.
finalize(accs) ==
    [y \in { y \in DOMAIN accs : emitted_seasons(accs[y]) # {} } |-> YearSummary(accs[y])]

-----------------------------------------------------------------------------
(* The inputs of the model *)

RECURSIVE Spaces(_)
Spaces(n) == IF n <= 0 THEN <<>> ELSE <<" ">> \o Spaces(n - 1)

\* text.ljust(n) and text.rjust(n)
LJust(text, n) == text \o Spaces(n - Len(text))

RJust(text, n) == Spaces(n - Len(text)) \o text

RECURSIVE NatChars(_)
NatChars(n) ==
    IF n < 10 THEN <<DigitChars[n + 1]>>
    ELSE NatChars(n \div 10) \o <<DigitChars[(n % 10) + 1]>>

\* f"{x:.4f}" of a fixed-point number
Fixed4Chars(x) ==
    LET a == IF x < 0 THEN -x ELSE x
        frac == NatChars(a % 10000)
    IN  (IF x < 0 THEN <<"-">> ELSE <<>>) \o NatChars(a \div 10000) \o <<".">>
        \o SubSeq(<<"0", "0", "0">>, 1, 4 - Len(frac)) \o frac

\* A directory line: id in columns [0,11), latitude in [12,20), longitude in
\* [21,30), the name in [41,71), then what follows the name field.
DirectoryLine(id, lat, lon, name, rest) ==
    LJust(id, 11) \o <<" ">> \o RJust(lat, 8) \o <<" ">> \o RJust(lon, 9)
    \o Spaces(11) \o LJust(name, 30) \o rest \o <<"\n">>

StationLine(station, rest) ==
    DirectoryLine(station.id, Fixed4Chars(station.lat), Fixed4Chars(station.lon),
                  station.name, rest)

IdA == <<"G", "M", "E", "0", "0", "1", "2", "2", "3", "6", "2">>

IdB == <<"G", "M", "E", "0", "0", "1", "1", "5", "7", "7", "1">>

IdC == <<"G", "M", "E", "0", "0", "1", "2", "9", "6", "3", "4">>

IdD == <<"G", "M", "E", "0", "0", "1", "0", "0", "0", "0", "7">>

\* Three stations about 1 km east of Q = (48.0, 9.0).
StationA == [id |-> IdA, lat |-> 480000, lon |-> 90135,
             name |-> <<"B", "A", "D", " ", "S", "O", "D", "E", "N", " ", "O", "S", "T">>]

StationB == [id |-> IdB, lat |-> 480014, lon |-> 90133,
             name |-> <<"S", "T", " ", "J", "O", "H", "A", "N", "N">>]

StationC == [id |-> IdC, lat |-> 480005, lon |-> 90135,
             name |-> <<"S", "A", "C", "H", "S", "E", "N", "H", "E", "I", "M">>]

\* The GSN flag and WMO id that may follow the name field.
Flags == <<" ", "G", "S", "N", " ", " ", " ", " ", " ", "1", "0", "9", "0", "5">>

\* The lines a directory file is made of: three stations, one line with an
\* unparseable latitude and one with an empty longitude.
DirLinePool ==
    << StationLine(StationA, <<>>),
       StationLine(StationB, Flags),
       StationLine(StationC, <<>>),
       DirectoryLine(IdD, <<"N", "/", "A">>, <<"9", ".", "0", "1", "3", "5">>,
                     <<"O", "H", "N", "E", " ", "B", "R", "E", "I", "T", "E">>, <<>>),
       DirectoryLine(IdD, <<"4", "8", ".", "0", "0", "0", "0">>, <<>>,
                     <<"O", "H", "N", "E", " ", "L", "A", "E", "N", "G", "E">>, Flags) >>

\* The files of at most n lines over a pool.
FilesOver(pool, n) ==
    UNION { { [i \in 1..k |-> pool[f[i]]] : f \in [1..k -> DOMAIN pool] } : k \in 0..n }

DirectoryFiles == FilesOver(DirLinePool, MaxStations)

\* A record line: id, year, month, element, then the 8-character day fields.
RECURSIVE DayFields(_)
DayFields(fields) ==
    IF fields = <<>> THEN <<>>
    ELSE RJust(Head(fields), 5) \o <<" ", " ", "E">> \o DayFields(Tail(fields))

RecordLine(id, year, month, element, fields) ==
    id \o year \o month \o element \o DayFields(fields) \o <<"\n">>

Y2019 == <<"2", "0", "1", "9">>

Y2020 == <<"2", "0", "2", "0">>

Missing == <<"-", "9", "9", "9", "9">>

\* The lines a record file is made of: present and missing days mixed, a
\* line of missing days only, blank and malformed fields, a line of 32
\* fields with a negative value, and an element that is no temperature.
RecLinePool ==
    << RecordLine(IdA, Y2020, <<"0", "1">>, TMAX, <<<<"2", "5", "0">>, Missing, <<"3", "0", "0">>>>),
       RecordLine(IdA, Y2020, <<"1", "2">>, TMIN, <<Missing, Missing>>),
       RecordLine(IdA, Y2019, <<"0", "7">>, TMAX,
                  <<<<"3", "0", "5">>, <<"2", "x", "5">>, <<>>, <<"3", "1", "0">>>>),
       RecordLine(IdA, Y2019, <<"0", "2">>, TMIN,
                  <<<<"-", "5", "0">>>> \o [d \in 1..29 |-> Missing]
                  \o <<<<"1", "2", "0">>, <<"9", "9", "9">>>>),
       RecordLine(IdA, Y2020, <<"0", "1">>, <<"P", "R", "C", "P">>, <<<<"1", "2">>, Missing>>) >>

RecordFiles == FilesOver(RecLinePool, MaxRecLines)

\* The station ids a request may name: two of the directory, one unknown.
IdX == <<"X", "X", "0", "0", "0", "0", "0", "0", "0", "0", "0">>

WeatherIds == {IdA, IdB, IdC, IdX}

StationIdArgs == {NoArg, <<>>, IdA, IdB, IdX}

SearchArgs(lat, lon, radius, max) ==
    [lat |-> lat, lon |-> lon, radius |-> radius, max |-> max]

QLat == <<"4", "8", ".", "0">>

QLon == <<"9", ".", "0">>

ALon == <<"9", ".", "0", "1", "3", "5">>

\* Searches from Q with every radius and result cap of the model, and from A.
ValidSearches ==
    { SearchArgs(QLat, QLon, radius, max) :
        radius \in {NoArg, <<"1", ".", "0", "0", "7">>, <<"1", ".", "0", "0", "3">>},
        max \in {NoArg, <<"-", "1">>, <<"0">>, <<"1">>} }
    \cup { SearchArgs(QLat, ALon, NoArg, max) : max \in {NoArg, <<"1">>} }

\* Searches with one parameter missing or unparseable.
FaultySearches ==
    { SearchArgs(NoArg, QLon, NoArg, NoArg),
      SearchArgs(<<"x">>, QLon, NoArg, NoArg),
      SearchArgs(QLat, NoArg, NoArg, NoArg),
      SearchArgs(QLat, <<"x">>, NoArg, NoArg),
      SearchArgs(QLat, QLon, <<"x">>, NoArg),
      SearchArgs(QLat, QLon, <<>>, <<"1">>),
      SearchArgs(QLat, QLon, NoArg, <<"x">>),
      SearchArgs(QLat, QLon, NoArg, <<"2", ".", "5">>) }

SearchRequests == ValidSearches \cup FaultySearches

StationDataArgs(station_id, start_year, end_year) ==
    [station_id |-> station_id, start_year |-> start_year, end_year |-> end_year]

Y2018 == <<"2", "0", "1", "8">>

\* Requests for station data with years that parse: station A over several
\* ranges, among them a reversed and an empty one, B without a record
\* source, and the unknown station.
ValidStationDataRequests ==
    { StationDataArgs(IdA, NoArg, NoArg),
      StationDataArgs(IdA, Y2019, Y2019),
      StationDataArgs(IdA, Y2020, Y2020),
      StationDataArgs(IdA, Y2020, Y2019),
      StationDataArgs(IdA, NoArg, Y2018),
      StationDataArgs(IdB, NoArg, NoArg),
      StationDataArgs(IdX, NoArg, NoArg),
      StationDataArgs(IdX, Y2020, Y2019) }

\* Requests without a station id or with a year that is no integer.
FaultyStationDataRequests ==
    { StationDataArgs(NoArg, NoArg, NoArg),
      StationDataArgs(<<>>, Y2019, Y2020),
      StationDataArgs(IdA, <<"x">>, NoArg),
      StationDataArgs(IdA, NoArg, <<"2", "0", "2", "0", ".", "5">>),
      StationDataArgs(IdB, <<>>, NoArg),
      StationDataArgs(IdX, <<"x">>, NoArg),
      StationDataArgs(IdX, Y2019, <<"z", "w", "e", "i">>) }

StationDataRequests == ValidStationDataRequests \cup FaultyStationDataRequests

\* The record lines an aggregation is fed: Decembers, Januaries and
\* Februaries of neighbouring years, a spring month, absent days, and a line
\* of absent days only.
RecordPool ==
    << DailyRecordLine(2019, 12, TMAX, <<<<86>>, <<>>, <<90>>>>),
       DailyRecordLine(2020, 1, TMAX, <<<<30>>>>),
       DailyRecordLine(2020, 2, TMIN, <<<<-20>>, <<10>>>>),
       DailyRecordLine(2020, 12, TMIN, <<<<22>>, <<>>>>),
       DailyRecordLine(2020, 4, TMAX, <<<<150>>, <<160>>>>),
       DailyRecordLine(2021, 1, TMIN, <<<<>>, <<>>>>) >>

RecordStreams == FilesOver(RecordPool, MaxRecLines)

\* The requests the threads are sent: a search, the data and the download of
\* station A, whose records the remote source has, and the processing of
\* station B, whose records it has not.
ConcurrentRequests ==
    { [op |-> "search_stations", args |-> SearchArgs(QLat, QLon, NoArg, NoArg)],
      [op |-> "get_station_data", args |-> StationDataArgs(IdA, NoArg, NoArg)],
      [op |-> "process_weather_data", args |-> [station_id |-> IdB]],
      [op |-> "download_weather_data", args |-> [station_id |-> IdA]] }

\* A directory file without a parseable line, and one with two stations.
ConcurrentDirectories ==
    { <<DirLinePool[4]>>, <<DirLinePool[1], DirLinePool[2]>> }

ConcurrentRemote ==
    [id \in WeatherIds |-> IF id = IdA THEN Served(<<RecLinePool[1]>>) ELSE NotFound]

\* The points distances are measured between, in degrees with four
\* decimals: the query point and the stations of the directory, the north
\* pole, a point south of the equator, and a point with its antipode.
Points ==
    { [lat |-> 480000, lon |-> 90000], [lat |-> 480000, lon |-> 90135],
      [lat |-> 480014, lon |-> 90133], [lat |-> 480005, lon |-> 90135],
      [lat |-> 900000, lon |-> 0], [lat |-> -12921, lon |-> 368219],
      [lat |-> -219656, lon |-> -551049], [lat |-> 219656, lon |-> 1248951] }

YearRanges ==
    { [start_year |-> 2019, end_year |-> 2020],
      [start_year |-> 2020, end_year |-> 2020],
      [start_year |-> 2020, end_year |-> 2021],
      [start_year |-> 2019, end_year |-> 2021] }

-----------------------------------------------------------------------------
(* The server *)

NoRequest == [op |-> "none", args |-> <<>>]

NoResponse == [status |-> 0, error |-> "", body |-> <<>>]

\* The record source used while the directory varies, and the directory
\* used while the record source varies.
DefaultRemote ==
    [id \in WeatherIds |->
        IF id = IdA THEN Served(<<RecLinePool[1], RecLinePool[4]>>) ELSE NotFound]

DefaultDirectory == <<DirLinePool[1], DirLinePool[2], DirLinePool[3]>>

\* The handler threads of the server.
Handlers == 1..MaxHandlers

\* A thread without a request.  Its locals: whether it found the station
\* list empty, parsed_stations and the next line of the directory file, the
\* list it worked on, the answer of the remote source, whether it read a
\* record file that was not closed, and its answer.
IdleHandler ==
    [pc |-> "idle", request |-> NoRequest, found_empty |-> FALSE,
     parsed_stations |-> <<>>, line |-> 0, worked |-> FALSE, worked_on |-> <<>>,
     fetched |-> NotFound, read_unclosed |-> FALSE, response |-> NoResponse]

InitServer ==
    /\ started = FALSE
    /\ stations = <<>>
    /\ weatherFiles = [id \in WeatherIds |-> NoFile]
    /\ request = NoRequest
    /\ response = NoResponse
    /\ requested = <<>>
    /\ handlers = [h \in Handlers |-> IdleHandler]
    /\ writing = [id \in WeatherIds |-> "no"]

\* No aggregation is under way.
NoAggregation ==
    /\ records = <<>>
    /\ consumed = 0
    /\ accumulators = <<>>
    /\ query = [start_year |-> DefaultStartYear, end_year |-> DefaultEndYear]
    /\ years = <<>>

\* No distance is being measured.
NoMeasurement ==
    /\ points = <<>>
    /\ distances = <<>>

\* Any directory file, one record source.
Init ==
    /\ InitServer
    /\ NoAggregation
    /\ NoMeasurement
    /\ stationsFile \in DirectoryFiles
    /\ remote = DefaultRemote

\* One directory file, any record source for station A.
InitRecords ==
    /\ InitServer
    /\ NoAggregation
    /\ NoMeasurement
    /\ stationsFile = DefaultDirectory
    /\ \E f \in {NotFound} \cup {Served(l) : l \in RecordFiles} :
           remote = [id \in WeatherIds |-> IF id = IdA THEN f ELSE NotFound]

\* The initialisation on import (server.py:321-326).
ModuleInit ==
    /\ ~started
    /\ started' = TRUE
    /\ stations' = parse_stations
    /\ UNCHANGED <<stationsFile, remote, weatherFiles, request, response, requested>>
    /\ UNCHANGED aggregation
    /\ UNCHANGED measurement
    /\ UNCHANGED threads

\* The requests the server is sent.
Requests ==
    { [op |-> "search_stations", args |-> args] : args \in SearchRequests }
    \cup { [op |-> "get_station_data", args |-> args] : args \in StationDataRequests }
    \cup { [op |-> "process_weather_data", args |-> [station_id |-> station_id]] :
              station_id \in StationIdArgs }
    \cup { [op |-> "download_weather_data", args |-> [station_id |-> station_id]] :
              station_id \in StationIdArgs }

\* A request waits for its handler.
Pending == request # NoRequest /\ response = NoResponse

\* The development server takes the next request when the last is answered.
Receive ==
    /\ started
    /\ ~Pending
    /\ request' \in Requests
    /\ response' = NoResponse
    /\ requested' = <<>>
    /\ UNCHANGED <<started, stationsFile, stations, remote, weatherFiles>>
    /\ UNCHANGED aggregation
    /\ UNCHANGED measurement
    /\ UNCHANGED threads

\* GET /search_stations (server.py:182-210)
search_stations ==
    /\ Pending
    /\ request.op = "search_stations"
    /\ LET p == search_params(request.args)
       IN  /\ response' = search_response(LoadedStations, request.args)
           /\ stations' = IF p.ok
                          THEN searched_directory(LoadedStations, p.lat, p.lon, p.radius)
                          ELSE LoadedStations
    /\ requested' = <<>>
    /\ UNCHANGED <<started, stationsFile, remote, weatherFiles, request>>
    /\ UNCHANGED aggregation
    /\ UNCHANGED measurement
    /\ UNCHANGED threads

\* GET /get_station_data (server.py:213-265)
get_station_data ==
    /\ Pending
    /\ request.op = "get_station_data"
    /\ LET r == get_station_data_result(LoadedStations, weatherFiles, request.args)
       IN  /\ stations' = LoadedStations
           /\ weatherFiles' = r.files
           /\ requested' = r.requested
           /\ response' = r.response
    /\ UNCHANGED <<started, stationsFile, remote, request>>
    /\ UNCHANGED aggregation
    /\ UNCHANGED measurement
    /\ UNCHANGED threads

\* GET /process_weather_data (server.py:291-318)
process_weather_data_endpoint ==
    /\ Pending
    /\ request.op = "process_weather_data"
    /\ stations' = LoadedStations
    /\ LET station_id == request.args.station_id
       IN  IF station_id = NoArg \/ station_id = <<>>
           THEN /\ response' = [status |-> 400, error |-> "Keine Station-ID angegeben",
                                body |-> <<>>]
                /\ requested' = <<>>
                /\ UNCHANGED weatherFiles
           ELSE LET files == downloaded_if_missing(weatherFiles, station_id)
                IN  /\ weatherFiles' = files
                    /\ requested' = requests_if_missing(weatherFiles, station_id)
                    /\ response' = process_response(files, station_id)
    /\ UNCHANGED <<started, stationsFile, remote, request>>
    /\ UNCHANGED aggregation
    /\ UNCHANGED measurement
    /\ UNCHANGED threads

\* GET /download_weather_data (server.py:268-288)
download_weather_data_endpoint ==
    /\ Pending
    /\ request.op = "download_weather_data"
    /\ stations' = LoadedStations
    /\ LET station_id == request.args.station_id
           station_ids == IF station_id = NoArg \/ station_id = <<>>
                          THEN [n \in DOMAIN LoadedStations |-> LoadedStations[n].id]
                          ELSE <<station_id>>
       IN  /\ weatherFiles' = download_weather_data_for_stations(weatherFiles, station_ids)
           /\ requested' = requests_for(weatherFiles, station_ids)
           /\ response' = download_response(station_id)
    /\ UNCHANGED <<started, stationsFile, remote, request>>
    /\ UNCHANGED aggregation
    /\ UNCHANGED measurement
    /\ UNCHANGED threads

Next ==
    \/ ModuleInit
    \/ Receive
    \/ search_stations
    \/ get_station_data
    \/ process_weather_data_endpoint
    \/ download_weather_data_endpoint

\* One aggregation: any stream of record lines, any range of years; the
\* server stands by.
InitAggregate ==
    /\ InitServer
    /\ stationsFile = DefaultDirectory
    /\ remote = DefaultRemote
    /\ records \in RecordStreams
    /\ consumed = 0
    /\ accumulators = <<>>
    /\ query \in YearRanges
    /\ years = <<>>
    /\ NoMeasurement

\* The aggregator takes the next record line of the stream.
StreamRecord ==
    /\ consumed < Len(records)
    /\ accumulators' = accumulate(accumulators, records[consumed + 1],
                                  query.start_year, query.end_year)
    /\ consumed' = consumed + 1
    /\ UNCHANGED <<records, query, years>>
    /\ UNCHANGED <<started, stationsFile, stations, remote, weatherFiles, request, response,
                   requested>>
    /\ UNCHANGED measurement
    /\ UNCHANGED threads

\* The stream is at its end: the result is built from the accumulators.
Finalize ==
    /\ consumed = Len(records)
    /\ years = <<>>
    /\ years' = <<finalize(accumulators)>>
    /\ UNCHANGED <<records, consumed, accumulators, query>>
    /\ UNCHANGED <<started, stationsFile, stations, remote, weatherFiles, request, response,
                   requested>>
    /\ UNCHANGED measurement
    /\ UNCHANGED threads

NextAggregate ==
    \/ StreamRecord
    \/ Finalize

-----------------------------------------------------------------------------
(* The handlers as threads: app.run serves every request in a thread of    *)
(* its own, and the steps of the handlers interleave.  A step is what a    *)
(* handler does between two looks at the station list or the cache.        *)

\* What the threads leave alone.
ThreadFrame ==
    /\ UNCHANGED <<started, stationsFile, remote, request, response, requested>>
    /\ UNCHANGED aggregation
    /\ UNCHANGED measurement

\* The directory file is written anew while no request has come in.
ReplaceStationsFile ==
    /\ started
    /\ \A h \in Handlers : handlers[h].pc = "idle"
    /\ stationsFile' \in ConcurrentDirectories \ {stationsFile}
    /\ UNCHANGED <<started, stations, remote, weatherFiles, request, response, requested>>
    /\ UNCHANGED aggregation
    /\ UNCHANGED measurement
    /\ UNCHANGED threads

\* The handler at the end of its request.
AnswerWith(handler, answer) ==
    [handler EXCEPT !.pc = "done", !.response = answer, !.parsed_stations = <<>>,
                    !.line = 0, !.fetched = NotFound]

\* The handler has read the process-wide list.
WorkingOn(handler, list) == [handler EXCEPT !.worked = TRUE, !.worked_on = list]

\* Where a handler goes on after download_weather_data_for_stations.
AfterDownload(handler) ==
    [handler EXCEPT !.pc = IF handler.request.op = "download_weather_data"
                           THEN "respond" ELSE "process",
                    !.fetched = NotFound]

\* A thread takes a request.  The threads are alike, so they are numbered
\* in the order in which their requests come in.
Accept(h) ==
    /\ started
    /\ handlers[h].pc = "idle"
    /\ \A g \in Handlers : g < h => handlers[g].pc # "idle"
    /\ \E r \in ConcurrentRequests :
           handlers' = [handlers EXCEPT ![h] = [@ EXCEPT !.pc = "load", !.request = r]]
    /\ UNCHANGED <<stations, weatherFiles, writing>>
    /\ ThreadFrame

\* if not stations:   (server.py:189, 220, 275, 298)
LoadCheck(h) ==
    /\ handlers[h].pc = "load"
    /\ handlers' = [handlers EXCEPT ![h] =
           IF stations = <<>>
           THEN [@ EXCEPT !.pc = "parse", !.found_empty = TRUE, !.line = 1]
           ELSE [@ EXCEPT !.pc = "handle"]]
    /\ UNCHANGED <<stations, weatherFiles, writing>>
    /\ ThreadFrame

\* One line of the directory file in parse_stations (server.py:43-53).
ParseLine(h) ==
    /\ handlers[h].pc = "parse"
    /\ handlers[h].line <= Len(stationsFile)
    /\ LET p == parse_station_line(stationsFile[handlers[h].line])
           parsed_stations == IF p.ok THEN Append(handlers[h].parsed_stations, p.station)
                              ELSE handlers[h].parsed_stations
       IN  /\ handlers' = [handlers EXCEPT ![h] =
                  [@ EXCEPT !.parsed_stations = parsed_stations, !.line = @ + 1]]
           /\ stations' = list_while_parsing(stations, parsed_stations)
    /\ UNCHANGED <<weatherFiles, writing>>
    /\ ThreadFrame

\* stations = parse_stations()   (server.py:190, 221, 276, 299)
Assign(h) ==
    /\ handlers[h].pc = "parse"
    /\ handlers[h].line > Len(stationsFile)
    /\ stations' = handlers[h].parsed_stations
    /\ handlers' = [handlers EXCEPT ![h] =
           [@ EXCEPT !.pc = "handle", !.parsed_stations = <<>>, !.line = 0]]
    /\ UNCHANGED <<weatherFiles, writing>>
    /\ ThreadFrame

\* search_stations after the load (server.py:193-210).
Search(h) ==
    /\ handlers[h].pc = "handle"
    /\ handlers[h].request.op = "search_stations"
    /\ LET args == handlers[h].request.args
           p == search_params(args)
       IN  /\ stations' = IF p.ok THEN searched_directory(stations, p.lat, p.lon, p.radius)
                                  ELSE stations
           /\ handlers' = [handlers EXCEPT ![h] =
                  WorkingOn(AnswerWith(@, search_response(stations, args)), stations)]
    /\ UNCHANGED <<weatherFiles, writing>>
    /\ ThreadFrame

\* get_station_data from its arguments to the station (server.py:224-237).
StationLookup(h) ==
    /\ handlers[h].pc = "handle"
    /\ handlers[h].request.op = "get_station_data"
    /\ LET args == handlers[h].request.args
           start_year == year_arg(args.start_year, DefaultStartYear)
           end_year == year_arg(args.end_year, DefaultEndYear)
       IN  handlers' = [handlers EXCEPT ![h] =
               IF args.station_id = NoArg \/ args.station_id = <<>>
               THEN AnswerWith(@, [status |-> 400, error |-> "Keine Station-ID angegeben",
                                   body |-> <<>>])
               ELSE IF ~(start_year.ok /\ end_year.ok)
               THEN AnswerWith(@, [status |-> 400, error |-> "Ungültige Jahresangaben",
                                   body |-> <<>>])
               ELSE IF ~find_station(stations, args.station_id).found
               THEN WorkingOn(AnswerWith(@, [status |-> 404,
                                             error |-> "Station nicht gefunden",
                                             body |-> <<>>]), stations)
               ELSE WorkingOn([@ EXCEPT !.pc = "exists_outer"], stations)]
    /\ UNCHANGED <<stations, weatherFiles, writing>>
    /\ ThreadFrame

\* process_weather_data and its station id (server.py:302-304).
ProcessArgs(h) ==
    /\ handlers[h].pc = "handle"
    /\ handlers[h].request.op = "process_weather_data"
    /\ LET station_id == handlers[h].request.args.station_id
       IN  handlers' = [handlers EXCEPT ![h] =
               IF station_id = NoArg \/ station_id = <<>>
               THEN AnswerWith(@, [status |-> 400, error |-> "Keine Station-ID angegeben",
                                   body |-> <<>>])
               ELSE [@ EXCEPT !.pc = "exists_outer"]]
    /\ UNCHANGED <<stations, weatherFiles, writing>>
    /\ ThreadFrame

\* download_weather_data for the station the request names (server.py:279-282).
DownloadArgs(h) ==
    /\ handlers[h].pc = "handle"
    /\ handlers[h].request.op = "download_weather_data"
    /\ handlers[h].request.args.station_id \notin {NoArg, <<>>}
    /\ handlers' = [handlers EXCEPT ![h] = [@ EXCEPT !.pc = "exists"]]
    /\ UNCHANGED <<stations, weatherFiles, writing>>
    /\ ThreadFrame

\* if not os.path.exists(station_data_path):   (server.py:241, 308)
ExistsOuter(h) ==
    /\ handlers[h].pc = "exists_outer"
    /\ handlers' = [handlers EXCEPT ![h] =
           IF weatherFiles[@.request.args.station_id].exists
           THEN [@ EXCEPT !.pc = "process"]
           ELSE [@ EXCEPT !.pc = "exists"]]
    /\ UNCHANGED <<stations, weatherFiles, writing>>
    /\ ThreadFrame

\* if not os.path.exists(target_path):   (server.py:77)
Exists(h) ==
    /\ handlers[h].pc = "exists"
    /\ handlers' = [handlers EXCEPT ![h] =
           IF weatherFiles[@.request.args.station_id].exists
           THEN AfterDownload(@)
           ELSE [@ EXCEPT !.pc = "get"]]
    /\ UNCHANGED <<stations, weatherFiles, writing>>
    /\ ThreadFrame

\* response = requests.get(file_url) and its status (server.py:79-80, 89-90)
Get(h) ==
    /\ handlers[h].pc = "get"
    /\ LET answer == remote[handlers[h].request.args.station_id]
       IN  handlers' = [handlers EXCEPT ![h] =
               IF answer.status = 200
               THEN [@ EXCEPT !.pc = "open", !.fetched = answer]
               ELSE AfterDownload(@)]
    /\ UNCHANGED <<stations, weatherFiles, writing>>
    /\ ThreadFrame

\* gzip.open(target_path, "wb"): the file exists and is empty (server.py:82).
Open(h) ==
    /\ handlers[h].pc = "open"
    /\ LET station_id == handlers[h].request.args.station_id
       IN  /\ weatherFiles' = [weatherFiles EXCEPT ![station_id] = File(<<>>)]
           /\ writing' = [writing EXCEPT ![station_id] = "opened"]
    /\ handlers' = [handlers EXCEPT ![h] = [@ EXCEPT !.pc = "write"]]
    /\ UNCHANGED stations
    /\ ThreadFrame

\* gz_file.write(response.content) of a long file: a part of the compressed
\* stream reaches the disk before the file is closed (server.py:83).
Flush(h) ==
    /\ handlers[h].pc = "write"
    /\ writing[handlers[h].request.args.station_id] = "opened"
    /\ writing' = [writing EXCEPT ![handlers[h].request.args.station_id] = "flushed"]
    /\ UNCHANGED <<stations, weatherFiles, handlers>>
    /\ ThreadFrame

\* The end of the with block: the file is complete (server.py:82-84).
Close(h) ==
    /\ handlers[h].pc = "write"
    /\ LET station_id == handlers[h].request.args.station_id
       IN  /\ weatherFiles' = [weatherFiles EXCEPT
                                  ![station_id] = File(handlers[h].fetched.lines)]
           /\ writing' = [writing EXCEPT ![station_id] = "no"]
    /\ handlers' = [handlers EXCEPT ![h] = AfterDownload(@)]
    /\ UNCHANGED stations
    /\ ThreadFrame

\* process_weather_data_for_station and the answer made of it (server.py:
\* 106-177, 245-265, 311-318).  A file that is open for writing reads as an
\* empty stream before the first flush and ends in EOFError after it, which
\* the handler catches at server.py:170.
Process(h) ==
    /\ handlers[h].pc = "process"
    /\ LET args == handlers[h].request.args
           station_id == args.station_id
           unclosed == weatherFiles[station_id].exists /\ writing[station_id] # "no"
           answer ==
               IF weatherFiles[station_id].exists /\ writing[station_id] = "flushed"
               THEN [status |-> 404, error |-> "Error processing file", body |-> <<>>]
               ELSE IF handlers[h].request.op = "get_station_data"
               THEN station_data_response(
                        find_station(handlers[h].worked_on, station_id).station,
                        weatherFiles, station_id,
                        year_arg(args.start_year, DefaultStartYear).val,
                        year_arg(args.end_year, DefaultEndYear).val)
               ELSE process_response(weatherFiles, station_id)
       IN  handlers' = [handlers EXCEPT ![h] =
               [AnswerWith(@, answer) EXCEPT !.read_unclosed = unclosed]]
    /\ UNCHANGED <<stations, weatherFiles, writing>>
    /\ ThreadFrame

\* The answer of download_weather_data (server.py:283).
Respond(h) ==
    /\ handlers[h].pc = "respond"
    /\ handlers' = [handlers EXCEPT ![h] =
           AnswerWith(@, download_response(@.request.args.station_id))]
    /\ UNCHANGED <<stations, weatherFiles, writing>>
    /\ ThreadFrame

\* The directory file may have no parseable line at the import and be
\* written anew before the first request; the remote source has the records
\* of station A.
InitConcurrent ==
    /\ InitServer
    /\ NoAggregation
    /\ NoMeasurement
    /\ stationsFile \in ConcurrentDirectories
    /\ remote = ConcurrentRemote

NextConcurrent ==
    \/ ModuleInit
    \/ ReplaceStationsFile
    \/ \E h \in Handlers :
           \/ Accept(h)
           \/ LoadCheck(h)
           \/ ParseLine(h)
           \/ Assign(h)
           \/ Search(h)
           \/ StationLookup(h)
           \/ ProcessArgs(h)
           \/ DownloadArgs(h)
           \/ ExistsOuter(h)
           \/ Exists(h)
           \/ Get(h)
           \/ Open(h)
           \/ Flush(h)
           \/ Close(h)
           \/ Process(h)
           \/ Respond(h)

\* One measurement: any two points of the model; the server stands by.
InitDistance ==
    /\ InitServer
    /\ NoAggregation
    /\ stationsFile = DefaultDirectory
    /\ remote = DefaultRemote
    /\ points \in Points \X Points
    /\ distances = <<>>

\* haversine is called on the two points in both orders, and on the first
\* point with itself.
Measure ==
    /\ distances = <<>>
    /\ LET A == points[1]
           B == points[2]
       IN  distances' = [ab |-> haversine_outcome(A.lat, A.lon, B.lat, B.lon),
                         ba |-> haversine_outcome(B.lat, B.lon, A.lat, A.lon),
                         aa |-> haversine_outcome(A.lat, A.lon, A.lat, A.lon)]
    /\ UNCHANGED points
    /\ UNCHANGED <<started, stationsFile, stations, remote, weatherFiles, request, response,
                   requested>>
    /\ UNCHANGED aggregation
    /\ UNCHANGED threads

NextDistance == Measure

Spec == Init /\ [][Next]_vars

SpecRecords == InitRecords /\ [][Next]_vars

SpecAggregate == InitAggregate /\ [][NextAggregate]_vars

SpecDistance == InitDistance /\ [][NextDistance]_vars

SpecConcurrent == InitConcurrent /\ [][NextConcurrent]_vars

-----------------------------------------------------------------------------
(* Claims about the search *)

IsSearch == request.op = "search_stations" /\ ~Pending

\* The search was accepted: it was answered with a station list.
Accepted == IsSearch /\ response.status = 200

\* The query point, radius and result cap of the request being answered.
QueryLat == float(request.args.lat).val

QueryLon == float(request.args.lon).val

QueryRadius == float(ArgOr(request.args.radius, DefaultRadius)).val

QueryMax == int(ArgOr(request.args.max, DefaultMax))

\* The computed distance of a station or result from the query point.
Computed(s) == haversine(QueryLat, QueryLon, s.lat, s.lon)

SameStation(r, s) == r.id = s.id /\ r.lat = s.lat /\ r.lon = s.lon /\ r.name = s.name

\* C1 as stated: every station of an accepted search reports a distance of
\* at most the requested radius.
C1_ReportedWithinRadius ==
    Accepted => \A i \in DOMAIN response.body : response.body[i].distance <= QueryRadius

\* C1 as amended: every station of an accepted search has a computed distance
\* of at most the requested radius, and the distance it reports, rounded to
\* two decimals, is at most 0.005 km above the radius.
C1_ComputedWithinRadius ==
    Accepted =>
        \A i \in DOMAIN response.body :
            /\ Computed(response.body[i]) <= QueryRadius
            /\ response.body[i].distance <= QueryRadius + 50

\* A returned station reports more than the radius it was found within.
C1_Witness ==
    /\ Accepted
    /\ \E i \in DOMAIN response.body :
           /\ response.body[i].distance > QueryRadius
           /\ Computed(response.body[i]) <= QueryRadius

\* C2: the result is the in-radius stations in ascending order of computed
\* distance, cut to max_results; no in-radius station that is left out is
\* strictly nearer to the query point than a station that is returned.
C2_NearestFirst ==
    (Accepted /\ QueryMax.val >= 0) =>
        /\ \A i, j \in DOMAIN response.body :
               i < j => Computed(response.body[i]) <= Computed(response.body[j])
        /\ \A k \in DOMAIN stations :
               (/\ Computed(stations[k]) <= QueryRadius
                /\ \A i \in DOMAIN response.body : ~SameStation(response.body[i], stations[k]))
               => \A i \in DOMAIN response.body :
                      Computed(stations[k]) >= Computed(response.body[i])

\* The results that report distance v, and the stations of the directory
\* within the radius whose distance rounds to v, both in their order.
ResultsAt(v) == SelectSeq(response.body, LAMBDA r : r.distance = v)

CandidatesAt(v) ==
    SelectSeq(stations,
              LAMBDA s : Computed(s) <= QueryRadius /\ round2(Computed(s)) = v)

\* C3: the returned list is sorted non-decreasing by reported distance, and
\* the stations that report the same distance are in directory order.
C3_SortedStable ==
    Accepted =>
        /\ \A i, j \in DOMAIN response.body :
               i < j => response.body[i].distance <= response.body[j].distance
        /\ \A n \in DOMAIN response.body :
               LET v == response.body[n].distance
               IN  /\ Len(ResultsAt(v)) <= Len(CandidatesAt(v))
                   /\ \A k \in DOMAIN ResultsAt(v) :
                          SameStation(ResultsAt(v)[k], CandidatesAt(v)[k])

\* Two different stations are returned with the same reported distance.
C3_Witness ==
    /\ Accepted
    /\ \E i, j \in DOMAIN response.body :
           /\ i < j
           /\ response.body[i].distance = response.body[j].distance
           /\ response.body[i].id # response.body[j].id

\* C4: an accepted search returns at most max_results stations.
C4_AtMostMaxResults == Accepted => Len(response.body) <= QueryMax.val

\* C5: a search whose max_results is not a non-negative integer is answered
\* with 400.
C5_BadMaxRejected ==
    (IsSearch /\ (~QueryMax.ok \/ QueryMax.val < 0)) => response.status = 400

\* lat or lon is missing or no number, or radius is no number.
BadCoordinates ==
    \/ request.args.lat = NoArg \/ ~float(request.args.lat).ok
    \/ request.args.lon = NoArg \/ ~float(request.args.lon).ok
    \/ (request.args.radius # NoArg /\ ~float(request.args.radius).ok)

\* C6: a search whose lat or lon is missing or unparseable, or whose radius
\* is unparseable, is answered with 400 "Ungültige Parameter" and no stations.
C6_InvalidParameter ==
    (IsSearch /\ BadCoordinates) =>
        /\ response.status = 400
        /\ response.error = "Ungültige Parameter"
        /\ response.body = <<>>

\* A search with good coordinates and an unparseable radius was answered.
C6_Witness ==
    /\ IsSearch
    /\ request.args.lat # NoArg /\ float(request.args.lat).ok
    /\ request.args.lon # NoArg /\ float(request.args.lon).ok
    /\ request.args.radius # NoArg /\ ~float(request.args.radius).ok
    /\ response.status = 400

\* C7: a search leaves the loaded directory as it was: the same stations in
\* the same order with the same fields.
C7_DirectoryUnchanged ==
    [][(Pending /\ request.op = "search_stations") => stations' = stations]_vars

\* A search has returned stations of a loaded directory.
C7_Witness == Accepted /\ response.body # <<>> /\ stations # <<>>

-----------------------------------------------------------------------------
(* Claims about the directory loader *)

\* The latitude and longitude fields of the line parse as numbers.
GoodLine(line) == float(Slice(line, 12, 20)).ok /\ float(Slice(line, 21, 30)).ok

\* The lines of the file that yield a station, in file order.
GoodLines == SelectSeq(stationsFile, GoodLine)

\* How many of the first n lines of the file yield a station.
GoodUpTo(n) == Len(SelectSeq(SubSeq(stationsFile, 1, n), GoodLine))

\* C8: the loader returns one station per line whose latitude and longitude
\* parse, in line order, each the station its line yields on its own,
\* whatever lines are skipped in between; an empty file gives an empty list.
C8_OneStationPerGoodLine ==
    started =>
        LET good == GoodLines
        IN  /\ Len(stations) = Len(good)
            /\ (stationsFile = <<>> => stations = <<>>)
            /\ \A i \in DOMAIN stations :
                   /\ <<stations[i]>> = parse_lines(<<good[i]>>)
                   /\ stations[i].id = Strip(Slice(good[i], 0, 11))
                   /\ stations[i].lat = float(Slice(good[i], 12, 20)).val
                   /\ stations[i].lon = float(Slice(good[i], 21, 30)).val

\* A skipped line is followed by a line that was loaded.
C8_Witness ==
    /\ started
    /\ Len(stationsFile) = 2
    /\ ~GoodLine(stationsFile[1])
    /\ GoodLine(stationsFile[2])
    /\ Len(stations) = 1

\* C9: a line built from a station (id, latitude, longitude and the padded
\* name in their columns, with or without further tokens behind the name)
\* is loaded back as that station: same id, lat and lon, and the name of
\* columns [41,71) trimmed.
C9_RoundTrip ==
    started =>
        \A n \in DOMAIN stationsFile :
            \A station \in {StationA, StationB, StationC}, rest \in {<<>>, Flags} :
                stationsFile[n] = StationLine(station, rest) =>
                    /\ GoodUpTo(n) \in DOMAIN stations
                    /\ stations[GoodUpTo(n)] = station
                    /\ station.name = Strip(Slice(stationsFile[n], 41, 71))

-----------------------------------------------------------------------------
(* Claims about the record parser *)

IsProcess == request.op = "process_weather_data" /\ ~Pending

\* The cached record file of the station the request names.
ProcessedFile == weatherFiles[request.args.station_id]

\* The text of the value field of a day, and whether the line holds it.
ValueField(line, day) == Slice(line, 13 + 8 * day, 18 + 8 * day)

HasField(line, day) == 18 + 8 * day <= Len(line)

\* The value fields of the file that do not hold -9999.
PresentFields(lines) ==
    { <<n, day>> \in (DOMAIN lines) \X (1..31) :
        HasField(lines[n], day) /\ ValueField(lines[n], day) # Missing }

\* C10: a value field equal to -9999 never produces an observation: every
\* observation returned stems from a field of its day that holds another
\* value, there are no more observations than such fields, and a file whose
\* value fields are all -9999 yields no observation at all.
C10_SentinelExcluded ==
    (IsProcess /\ response.status # 400 /\ ProcessedFile.exists) =>
        LET lines == ProcessedFile.lines
        IN  /\ Len(response.body) <= Cardinality(PresentFields(lines))
            /\ \A i \in DOMAIN response.body :
                   /\ response.body[i].temperature # Sentinel
                   /\ \E f \in PresentFields(lines) :
                          /\ response.body[i].date
                               = Slice(lines[f[1]], 11, 17) \o TwoDigits(f[2])
                          /\ response.body[i].type = Slice(lines[f[1]], 17, 21)
                          /\ int(ValueField(lines[f[1]], f[2])).val
                               = response.body[i].temperature
            /\ (PresentFields(lines) = {} => response.status = 404 /\ response.body = <<>>)

\* A file with a -9999 field beside a present one was processed.
C10_Witness ==
    /\ IsProcess
    /\ response.status = 200
    /\ \E n \in DOMAIN ProcessedFile.lines, day \in 1..31 :
           /\ HasField(ProcessedFile.lines[n], day)
           /\ ValueField(ProcessedFile.lines[n], day) = Missing
           /\ Slice(ProcessedFile.lines[n], 17, 21) \in {TMAX, TMIN}

\* A file whose temperature lines hold -9999 only was processed.
C10_WitnessAllMissing ==
    /\ IsProcess
    /\ response.status # 400
    /\ ProcessedFile.exists
    /\ ProcessedFile.lines # <<>>
    /\ PresentFields(ProcessedFile.lines) = {}
    /\ response.status = 404

\* The days of a line whose value field holds an integer other than -9999.
PresentDays(line) ==
    { day \in 1..31 : /\ HasField(line, day)
                      /\ int(ValueField(line, day)).ok
                      /\ int(ValueField(line, day)).val # Sentinel }

IsTemperatureLine(line) == Strip(Slice(line, 17, 21)) \in {TMAX, TMIN}

\* The days a line is to yield an observation for.
ObservedDays(line) == IF IsTemperatureLine(line) THEN PresentDays(line) ELSE {}

\* The observation of the field of a day: the year, month and element of the
\* line, the day of the field, the value in tenths of a degree.
FieldObservation(line, day) ==
    [date |-> Strip(Slice(line, 11, 15)) \o Strip(Slice(line, 15, 17)) \o TwoDigits(day),
     type |-> Strip(Slice(line, 17, 21)),
     temperature |-> int(ValueField(line, day)).val]

\* The number of observations due to the lines before line n.
RECURSIVE CountBefore(_, _)
CountBefore(lines, n) ==
    IF n <= 1 THEN 0
    ELSE CountBefore(lines, n - 1) + Cardinality(ObservedDays(lines[n - 1]))

\* The place of a day among the observed days of its line.
Rank(line, day) == Cardinality({ d \in ObservedDays(line) : d <= day })

\* The part of the answer that is due to line n.
LineSegment(body, lines, n) ==
    SubSeq(body, CountBefore(lines, n) + 1, CountBefore(lines, n + 1))

\* C11: of a TMAX or TMIN line, the field of day i (at offset 21 + 8*(i-1))
\* that holds a present value v yields exactly one observation, with the
\* year, month and element of the line, day i and the temperature v/10 (kept
\* in tenths); a line yields at most 31 observations, no two of one day.
C11_FieldPerDay ==
    (IsProcess /\ response.status # 400 /\ ProcessedFile.exists) =>
        LET lines == ProcessedFile.lines
            total == CountBefore(lines, Len(lines) + 1)
        IN  total > 0 =>
              /\ response.status = 200
              /\ Len(response.body) = total
              /\ \A n \in DOMAIN lines :
                   /\ \A day \in ObservedDays(lines[n]) :
                          response.body[CountBefore(lines, n) + Rank(lines[n], day)]
                            = FieldObservation(lines[n], day)
                   /\ LET segment == LineSegment(response.body, lines, n)
                      IN  /\ Len(segment) <= 31
                          /\ \A i, j \in DOMAIN segment :
                                 segment[i].date = segment[j].date => i = j

\* A line was processed whose present value stands behind a field that
\* yields nothing.
C11_Witness ==
    /\ IsProcess
    /\ response.status = 200
    /\ \E n \in DOMAIN ProcessedFile.lines :
         \E day \in ObservedDays(ProcessedFile.lines[n]) :
            /\ day > 1
            /\ (day - 1) \notin ObservedDays(ProcessedFile.lines[n])
            /\ response.body[CountBefore(ProcessedFile.lines, n)
                             + Rank(ProcessedFile.lines[n], day)].date
                 = Slice(ProcessedFile.lines[n], 11, 17) \o TwoDigits(day)

\* The days of a line whose value field holds text that is no integer.
MalformedDays(line) ==
    { day \in 1..31 : /\ HasField(line, day)
                      /\ Strip(ValueField(line, day)) # <<>>
                      /\ ~int(ValueField(line, day)).ok }

\* C12: a value field of a TMAX or TMIN line that is no number is skipped
\* on its own: it yields no observation, and every present field of the
\* file, before and after it in its line and in the other lines, still
\* yields its observation.
C12_MalformedFieldSkipped ==
    (IsProcess /\ response.status # 400 /\ ProcessedFile.exists) =>
        LET lines == ProcessedFile.lines
        IN  \A n \in DOMAIN lines :
              (IsTemperatureLine(lines[n]) /\ MalformedDays(lines[n]) # {}) =>
                 /\ \A m \in DOMAIN lines : \A day \in ObservedDays(lines[m]) :
                        /\ response.status = 200
                        /\ \E i \in DOMAIN response.body :
                               response.body[i] = FieldObservation(lines[m], day)
                 /\ \A day \in MalformedDays(lines[n]) :
                        \A i \in DOMAIN response.body :
                            ~ /\ response.body[i].date
                                   = Slice(lines[n], 11, 17) \o TwoDigits(day)
                              /\ response.body[i].type = Slice(lines[n], 17, 21)

\* A file was processed whose first line holds a malformed field between two
\* present ones and whose second line holds a present field.
C12_Witness ==
    /\ IsProcess
    /\ response.status = 200
    /\ Len(ProcessedFile.lines) >= 2
    /\ IsTemperatureLine(ProcessedFile.lines[1])
    /\ \E day \in MalformedDays(ProcessedFile.lines[1]) :
          /\ \E before \in ObservedDays(ProcessedFile.lines[1]) : before < day
          /\ \E after \in ObservedDays(ProcessedFile.lines[1]) : after > day
    /\ ObservedDays(ProcessedFile.lines[2]) # {}
    /\ ProcessedFile.lines[2] # ProcessedFile.lines[1]

-----------------------------------------------------------------------------
(* Claims about the station data *)

\* An answered request for station data.
IsGet == request.op = "get_station_data" /\ ~Pending

\* The request names a station.
NamesStation == request.args.station_id # NoArg /\ request.args.station_id # <<>>

\* A year of the request is an integer, or left to its default.
YearGiven(arg) == arg = NoArg \/ int(arg).ok

YearsGiven == YearGiven(request.args.start_year) /\ YearGiven(request.args.end_year)

StartYear ==
    IF request.args.start_year = NoArg THEN DefaultStartYear ELSE int(request.args.start_year).val

EndYear ==
    IF request.args.end_year = NoArg THEN DefaultEndYear ELSE int(request.args.end_year).val

\* The loaded directory holds a station of that id.
InDirectory(station_id) == \E i \in DOMAIN stations : stations[i].id = station_id

\* C13: a request for the data of a station whose id the loaded directory
\* does not hold is answered 404 "Station nicht gefunden", whether or not a
\* record file of that id is cached (the request names an id and its years
\* are integers: claim C15 has the other case).
C13_StationNotFound ==
    (IsGet /\ NamesStation /\ YearsGiven /\ ~InDirectory(request.args.station_id)) =>
        /\ response.status = 404
        /\ response.error = "Station nicht gefunden"
        /\ response.body = <<>>

\* The data of a station outside the directory were asked for while its
\* record file was cached.
C13_Witness ==
    /\ IsGet /\ NamesStation /\ YearsGiven
    /\ ~InDirectory(request.args.station_id)
    /\ weatherFiles[request.args.station_id].exists
    /\ file_observations(weatherFiles[request.args.station_id].lines) # <<>>
    /\ response.status = 404

\* The cached record file of the station the request names.
RequestedFile == weatherFiles[request.args.station_id]

\* The year of a record line.
LineYear(line) == int(Slice(line, 11, 15)).val

InRange(year) == StartYear <= year /\ year <= EndYear

\* The fields of the file that are to yield an observation, and those of
\* them whose line is of a year of the requested range.
ObservedFields(lines) ==
    UNION { { <<n, day>> : day \in ObservedDays(lines[n]) } : n \in DOMAIN lines }

FieldsInRange(lines) == { f \in ObservedFields(lines) : InRange(LineYear(lines[f[1]])) }

\* The request is for a station of the directory with integer years.
WellFormedGet ==
    IsGet /\ NamesStation /\ YearsGiven /\ InDirectory(request.args.station_id)

BadYear(arg) == arg # NoArg /\ ~int(arg).ok

\* C15: a start_year or end_year that is no integer is answered 400
\* "Ungültige Jahresangaben", for a station of the directory and for an id
\* the directory does not hold.
C15_BadYearRejected ==
    (/\ IsGet /\ NamesStation
     /\ (BadYear(request.args.start_year) \/ BadYear(request.args.end_year))) =>
        /\ response.status = 400
        /\ response.error = "Ungültige Jahresangaben"
        /\ response.body = <<>>

\* A request with a year that is no integer, for an id the directory does
\* not hold.
C15_Witness ==
    /\ IsGet /\ NamesStation
    /\ BadYear(request.args.end_year)
    /\ ~InDirectory(request.args.station_id)
    /\ stations # <<>>
    /\ response.status = 400

\* C16: a request whose end_year is earlier than its start_year, both
\* integers, is rejected with 400.
C16_ReversedRangeRejected ==
    (IsGet /\ NamesStation /\ YearsGiven /\ EndYear < StartYear) =>
        response.status = 400

\* C17: the temperatures of a successful answer are the observations of the
\* record file whose line is of a year y with start_year <= y <= end_year:
\* every one of them, and no observation of another year.
C17_ExactYearRange ==
    (IsGet /\ response.status = 200) =>
        LET lines == RequestedFile.lines
            temperatures == response.body.temperatures
        IN  /\ Len(temperatures) = Cardinality(FieldsInRange(lines))
            /\ \A f \in FieldsInRange(lines) :
                   \E i \in DOMAIN temperatures :
                       temperatures[i] = FieldObservation(lines[f[1]], f[2])
            /\ \A i \in DOMAIN temperatures :
                   /\ InRange(int(Slice(temperatures[i].date, 0, 4)).val)
                   /\ \E f \in FieldsInRange(lines) :
                          temperatures[i] = FieldObservation(lines[f[1]], f[2])

\* A success whose record file holds observations of the last year of the
\* range and observations past it or before it.
C17_Witness ==
    /\ IsGet
    /\ response.status = 200
    /\ \E f \in FieldsInRange(RequestedFile.lines) :
           LineYear(RequestedFile.lines[f[1]]) = EndYear
    /\ ObservedFields(RequestedFile.lines) # FieldsInRange(RequestedFile.lines)

\* A request was answered.
Answered == request # NoRequest /\ ~Pending

\* C18: an answer of /search_stations, /get_station_data or
\* /process_weather_data is a result or an error, never both: an error
\* answer carries its message and no stations or temperatures, a success
\* carries no error and the whole result: stations of the directory, every
\* observation of the file, or the station and every observation of the range.
C18_ResultOrError ==
    Answered =>
        /\ response.status = 200 \/ response.status >= 400
        /\ response.status # 200 => (response.error # "" /\ response.body = <<>>)
        /\ response.status = 200 =>
             /\ response.error = ""
             /\ IsSearch =>
                  \A i \in DOMAIN response.body :
                      \E k \in DOMAIN stations : SameStation(response.body[i], stations[k])
             /\ IsProcess =>
                  /\ response.body # <<>>
                  /\ Len(response.body) = Cardinality(ObservedFields(ProcessedFile.lines))
             /\ IsGet =>
                  /\ response.body.id = request.args.station_id
                  /\ \E k \in DOMAIN stations :
                         /\ stations[k].id = response.body.id
                         /\ stations[k].name = response.body.name
                         /\ stations[k].lat = response.body.lat
                         /\ stations[k].lon = response.body.lon
                  /\ response.body.temperatures # <<>>
                  /\ Len(response.body.temperatures)
                       = Cardinality(FieldsInRange(RequestedFile.lines))

\* An error answer to a request for station data whose record file holds
\* observations.
C18_Witness ==
    /\ IsGet
    /\ response.status = 404
    /\ NamesStation /\ YearsGiven
    /\ RequestedFile.exists
    /\ ObservedFields(RequestedFile.lines) # {}

\* The cache of a server that has downloaded nothing yet.
FreshCache == [id \in WeatherIds |-> NoFile]

\* C19: with the directory and the record source unchanged, a request for
\* station data is answered as the same request is answered on an empty
\* cache, whatever was downloaded before it; so two calls with the same
\* station id, start_year and end_year return the same output, whether or
\* not the first of them had to download the records.
C19_Idempotent ==
    IsGet => response = get_station_data_result(stations, FreshCache, request.args).response

\* A success read from a record file that is in the cache now: the next call
\* with these arguments downloads nothing.
C19_Witness ==
    /\ IsGet
    /\ response.status = 200
    /\ RequestedFile = File(remote[request.args.station_id].lines)
    /\ FreshCache # weatherFiles

-----------------------------------------------------------------------------
(* Claims about the aggregation *)

\* The record lines the aggregator has taken.
Consumed == SubSeq(records, 1, consumed)

\* The record is of a year of the range, and its season is not a winter past
\* the end of the range.
InSeasons(record) ==
    /\ query.start_year <= record.year /\ record.year <= query.end_year
    /\ ~(record.month = 12 /\ record.year + 1 > query.end_year)

\* The record belongs to the winter of year y: the December before it, or
\* its January or February.
OfWinter(record, y) ==
    \/ record.month = 12 /\ record.year + 1 = y
    \/ record.month \in {1, 2} /\ record.year = y

\* The number and the sum of the present values of the records taken that
\* belong to the winter of year y, for one element.
RECURSIVE WinterCount(_, _, _)
WinterCount(taken, y, element) ==
    IF taken = <<>> THEN 0
    ELSE (IF /\ Head(taken).element = element
             /\ InSeasons(Head(taken))
             /\ OfWinter(Head(taken), y)
          THEN present_count(Head(taken).values) ELSE 0)
         + WinterCount(Tail(taken), y, element)

RECURSIVE WinterSum(_, _, _)
WinterSum(taken, y, element) ==
    IF taken = <<>> THEN 0
    ELSE (IF /\ Head(taken).element = element
             /\ InSeasons(Head(taken))
             /\ OfWinter(Head(taken), y)
          THEN present_sum(Head(taken).values) ELSE 0)
         + WinterSum(Tail(taken), y, element)

\* The winter bucket of year y as the accumulators hold it.
WinterOf(y) ==
    IF y \in DOMAIN accumulators THEN accumulators[y].seasons["Winter"] ELSE EmptyBucket

\* The years a record of the model can touch.
ModelYears == 2018..2023

\* C20: the observations of a December record of year Y are counted in the
\* winter of Y+1 and never in the winter of Y, those of a January or February
\* record of year Y in the winter of Y: the winter bucket of every year holds
\* the counts and sums of exactly these records (of those that take part in
\* the seasons: a year of the range, no winter past its end).
C20_WinterShift ==
    \A y \in ModelYears :
        /\ WinterOf(y).count_TMAX = WinterCount(Consumed, y, TMAX)
        /\ WinterOf(y).sum_TMAX = WinterSum(Consumed, y, TMAX)
        /\ WinterOf(y).count_TMIN = WinterCount(Consumed, y, TMIN)
        /\ WinterOf(y).sum_TMIN = WinterSum(Consumed, y, TMIN)

\* A December record with present values was taken whose own year and whose
\* next year are in the range: the winter of the next year holds its values
\* and the winter of its own year holds none.
C20_Witness ==
    \E n \in 1..consumed :
        /\ records[n].month = 12
        /\ present_count(records[n].values) > 0
        /\ query.start_year <= records[n].year
        /\ records[n].year + 1 <= query.end_year
        /\ WinterOf(records[n].year + 1).count_TMAX >= present_count(records[n].values)
        /\ WinterOf(records[n].year).count_TMAX = 0
        /\ records[n].year \in DOMAIN accumulators

\* The record line the aggregator takes next.
NextRecord == records[consumed + 1]

\* The line is a December of the last year of the range.
DecemberOfEndYear(record) ==
    /\ record.month = 12
    /\ record.year = query.end_year
    /\ query.start_year <= record.year

\* The sums and counts of a year, without its seasons.
YearlyOf(accs, y) ==
    LET acc == accumulator_of(accs, y)
    IN  [sum_TMAX |-> acc.sum_TMAX, count_TMAX |-> acc.count_TMAX,
         sum_TMIN |-> acc.sum_TMIN, count_TMIN |-> acc.count_TMIN]

\* C21: a December record whose year is end_year adds to no season bucket of
\* any year, and its present values are added to the sum and the count of
\* its element in the yearly aggregate of end_year.
C21_EndYearBoundary ==
    [][ (consumed < Len(records) /\ DecemberOfEndYear(NextRecord)) =>
          /\ \A y \in ModelYears :
                 accumulator_of(accumulators', y).seasons
                     = accumulator_of(accumulators, y).seasons
          /\ YearlyOf(accumulators', query.end_year)
                 = add_values(YearlyOf(accumulators, query.end_year), NextRecord)
          /\ \A y \in DOMAIN accumulators' : y \in ModelYears ]_vars

\* A December record of end_year with present values was taken: the year
\* holds its values, and no season of that year or of the next holds any.
C21_Witness ==
    /\ consumed > 0
    /\ DecemberOfEndYear(records[consumed])
    /\ present_count(records[consumed].values) > 0
    /\ YearlyOf(accumulators, query.end_year).count_TMIN
           >= present_count(records[consumed].values)
    /\ \A y \in {query.end_year, query.end_year + 1} :
           accumulator_of(accumulators, y).seasons = EmptyAccumulator.seasons

\* The aggregation is finalized.
Finalized == years # <<>>

\* The year has observations in its yearly counts.
HasYearlyCounts(y) ==
    /\ y \in DOMAIN accumulators
    /\ accumulators[y].count_TMAX + accumulators[y].count_TMIN > 0

\* No season bucket of the year has an observation.
NoSeasonalCounts(y) ==
    \A season \in SeasonKey :
        /\ accumulator_of(accumulators, y).seasons[season].count_TMAX = 0
        /\ accumulator_of(accumulators, y).seasons[season].count_TMIN = 0

\* C22: a year of the finalized result has a season with an average that
\* is not null, and a year whose season buckets hold no observation is not
\* in the result, whatever its yearly counts.
C22_YearNeedsSeason ==
    Finalized =>
        /\ \A y \in DOMAIN years[1] :
               \E season \in DOMAIN years[1][y].seasons :
                   \/ years[1][y].seasons[season].avg_TMAX # null
                   \/ years[1][y].seasons[season].avg_TMIN # null
        /\ \A y \in ModelYears :
               NoSeasonalCounts(y) => y \notin DOMAIN years[1]

\* A finalized aggregation with a year that has yearly counts and no
\* seasonal observation, and with another year that is in the result.
C22_Witness ==
    /\ Finalized
    /\ \E y \in ModelYears :
           HasYearlyCounts(y) /\ NoSeasonalCounts(y) /\ y \notin DOMAIN years[1]
    /\ DOMAIN years[1] # {}

-----------------------------------------------------------------------------
(* Claims about the distance *)

Measured == distances # <<>>

C23_WitnessAntipode ==
    /\ Measured
    /\ points[1].lat = -points[2].lat
    /\ points[1].lat # 0
    /\ distances.ab.raised

-----------------------------------------------------------------------------
(* Claims about the record cache *)

\* The operations that can ask the remote source for records.
FetchingOps == {"get_station_data", "process_weather_data", "download_weather_data"}

\* C24: the remote source is asked for a station's records only when no
\* cached file of the station exists: every request a handler sends is for a
\* station without a file, a station is asked for twice by one handler only
\* if the first answer stored nothing, and a stored file is never removed or
\* replaced.
C24_RequestOnlyWithoutFile ==
    [][ Pending =>
          /\ \A n \in DOMAIN requested' : ~weatherFiles[requested'[n]].exists
          /\ \A i, j \in DOMAIN requested' :
                 (i < j /\ requested'[i] = requested'[j])
                     => ~weatherFiles'[requested'[i]].exists
          /\ \A id \in WeatherIds :
                 weatherFiles[id].exists => weatherFiles'[id] = weatherFiles[id] ]_vars

\* A request for a station was answered from the file an earlier download
\* had stored: no request went to the remote source.
C24_Witness ==
    /\ ~Pending
    /\ request.op \in FetchingOps
    /\ request.args.station_id = IdA
    /\ response.status = 200
    /\ weatherFiles[IdA].exists
    /\ requested = <<>>

\* The station ids the handler asked the remote source for.
Requested == { requested[n] : n \in DOMAIN requested }

\* C25: every successful search calls download_weather_data_for_stations
\* for the stations it returns: after the answer each of them has a cached
\* file or was asked for at the remote source.
C25_SearchDownloads ==
    (IsSearch /\ response.status = 200) =>
        \A n \in DOMAIN response.body :
            \/ weatherFiles[response.body[n].id].exists
            \/ response.body[n].id \in Requested

\* The answered request got as far as the download of the station it names.
Fetches == WellFormedGet \/ (IsProcess /\ NamesStation)

\* C28: a download the remote source answers with another status than 200
\* stores no file; get_station_data and process_weather_data then answer 404,
\* and every request for such a station, the next one too, asks the remote
\* source again.
C28_FailedDownload ==
    /\ ~Pending =>
           \A id \in Requested : remote[id].status # 200 => ~weatherFiles[id].exists
    /\ (Fetches /\ remote[request.args.station_id].status # 200) =>
           /\ request.args.station_id \in Requested
           /\ response.status = 404
           /\ response.error = "No weather data found"

\* Station A is in the directory and the remote source has no records of
\* it: get_station_data asked for them, stored nothing and answered 404.
C28_Witness ==
    /\ WellFormedGet
    /\ request.args.station_id = IdA
    /\ remote[IdA].status = 404
    /\ requested = <<IdA>>
    /\ ~weatherFiles[IdA].exists
    /\ response.status = 404

\* The answer is one of the rejections of get_station_data: 400, or 404
\* "Station nicht gefunden".
Rejected(answer) ==
    \/ answer.status = 400
    \/ answer.status = 404 /\ answer.error = "Station nicht gefunden"

\* C29: when get_station_data answers 400 (no station id, a year that is no
\* integer) or 404 "Station nicht gefunden", it has asked the remote source
\* for nothing and the cached record files are those of before.
C29_RejectedWithoutDownload ==
    [][ (Pending /\ request.op = "get_station_data" /\ Rejected(response')) =>
          /\ requested' = <<>>
          /\ weatherFiles' = weatherFiles ]_vars

\* The request named a station the directory does not hold while the remote
\* source has its records: the answer is the 404, and no file was stored.
C29_Witness ==
    /\ IsGet
    /\ request.args.station_id = IdA
    /\ response.status = 404 /\ response.error = "Station nicht gefunden"
    /\ remote[IdA].status = 200
    /\ ~weatherFiles[IdA].exists
    /\ requested = <<>>

\* A year of the request was no integer, for a station whose records the
\* remote source has: the answer is 400, and no file was stored.
C29_WitnessBadYear ==
    /\ IsGet
    /\ request.args.station_id = IdA
    /\ response.status = 400 /\ response.error = "Ungültige Jahresangaben"
    /\ remote[IdA].status = 200
    /\ ~weatherFiles[IdA].exists
    /\ requested = <<>>

IsDownload == request.op = "download_weather_data" /\ ~Pending

\* C30: when /download_weather_data answers a request that names a station
\* with its message of success (200), a cached record file of that station
\* exists.
C30_SuccessMeansFile ==
    (IsDownload /\ NamesStation /\ response.status = 200) =>
        weatherFiles[request.args.station_id].exists

-----------------------------------------------------------------------------
(* Claims about concurrent requests *)

\* C26: a handler never parses a record file while a download is still
\* writing it: every handler that finds the file reads the complete file.
C26_ReadsCompleteFile ==
    \A h \in Handlers : ~handlers[h].read_unclosed

\* The handler is past its load: it found the list non-empty, or it has
\* assigned the list it parsed.
Loaded(h) == handlers[h].pc \notin {"idle", "load", "parse"}

\* Some handler found the list empty and has assigned its parse.
LazilyLoaded == \E h \in Handlers : handlers[h].found_empty /\ Loaded(h)

\* The parse of each directory file the threads may find.
ParsedDirectories == [directory \in ConcurrentDirectories |-> parse_lines(directory)]

\* What holds of the list and of the handlers in every state: a handler
\* that has read the list has read the parse of the whole directory file
\* or, when no handler found the list empty, the list of the import; and
\* after a lazy load the list is the parse of the directory file.
CompleteLists ==
    LET parsed == IF stationsFile \in ConcurrentDirectories
                  THEN ParsedDirectories[stationsFile] ELSE parse_stations
    IN  /\ \A h \in Handlers :
               handlers[h].worked =>
                   \/ handlers[h].worked_on = parsed
                   \/ /\ handlers[h].worked_on = stations
                      /\ \A g \in Handlers : ~handlers[g].found_empty
        /\ LazilyLoaded => stations = parsed

=============================================================================
